---- MODULE Spec2Model ----
(***************************************************************************)
(* jobwatch-leipzig (src/app.py): the record accessors, the identity key,  *)
(* the relevance score, the target-organisation matcher and the search /   *)
(* dedup / filter / snapshot-diff / ranking pipeline of one script run.    *)
(*                                                                         *)
(* Python strings are sequences of one-character strings.  A JSON value is *)
(* a tagged record: [t |-> "none"], [t |-> "str", s |-> <<...>>],          *)
(* [t |-> "num", n |-> i] or [t |-> "dict", d |-> <record>].  A raw job    *)
(* record is a TLA+ record whose DOMAIN is the set of keys the Python dict *)
(* holds.  Coordinates are in 1/10000 degree, distances in whole km.       *)
(* Texts are ASCII: umlauts are written ae, oe, ue, the dashes as "-".     *)
(*                                                                         *)
(* Spec is one script run: widgets and buttons, the search loop, the       *)
(* ranking step, the pending snapshot save.  SpecKey, SpecScore and        *)
(* SpecOrg apply item_key, score_breakdown and match_target_org to         *)
(* arguments drawn from finite sets, with the run at rest.                 *)
(*                                                                         *)
(* A value that an expression uses many times is bound once through a      *)
(* singleton set (CHOOSE r \in {e(x) : x \in {v}} : TRUE, \E x \in {v}),   *)
(* which is the value e(v).                                                *)
(***************************************************************************)
EXTENDS Integers, Sequences, FiniteSets, TLC

\* ------------------------------------------------------------------------
\* Strings
\* ------------------------------------------------------------------------
UpperAlpha == <<"A","B","C","D","E","F","G","H","I","J","K","L","M",
                "N","O","P","Q","R","S","T","U","V","W","X","Y","Z">>
LowerAlpha == <<"a","b","c","d","e","f","g","h","i","j","k","l","m",
                "n","o","p","q","r","s","t","u","v","w","x","y","z">>

\* the explicit sequence of a function on 1..n
AsSeq(f) == f \o <<>>

RECURSIVE PairUp(_, _)
PairUp(from, to) ==
    IF from = <<>> THEN <<>> ELSE (Head(from) :> Head(to)) @@ PairUp(Tail(from), Tail(to))

LowerTable == PairUp(UpperAlpha, LowerAlpha)

\* str.lower() on one character
LowerChar(c) == IF c \in DOMAIN LowerTable THEN LowerTable[c] ELSE c

\* str.lower()
Lower(s) == CHOOSE r \in {AsSeq([i \in 1..Len(t) |-> LowerChar(t[i])]) : t \in {s}} : TRUE

IsSpace(c) == c \in {" ", "\n", "\t"}

RECURSIVE LStrip(_)
LStrip(s) == IF s # <<>> /\ IsSpace(Head(s)) THEN LStrip(Tail(s)) ELSE s

RECURSIVE RStrip(_)
RStrip(s) ==
    IF s # <<>> /\ IsSpace(s[Len(s)]) THEN RStrip(SubSeq(s, 1, Len(s) - 1)) ELSE s

\* str.strip()
Strip(s) == RStrip(LStrip(s))

\* Python's  k in text  on strings
Contains(text, k) ==
    \E t \in {text}, w \in {k} :
        \E i \in 0..(Len(t) - Len(w)) : \A j \in 1..Len(w) : t[i + j] = w[j]

\* sep.join(parts)
RECURSIVE Join(_, _)
Join(sep, parts) ==
    IF parts = <<>> THEN <<>>
    ELSE IF Len(parts) = 1 THEN parts[1]
    ELSE parts[1] \o sep \o Join(sep, Tail(parts))

Range(seq) == {seq[i] : i \in 1..Len(seq)}

\* ------------------------------------------------------------------------
\* JSON values and Python dict access
\* ------------------------------------------------------------------------
NoneV == [t |-> "none"]
Str(s) == [t |-> "str", s |-> s]
Num(n) == [t |-> "num", n |-> n]
Dict(d) == [t |-> "dict", d |-> d]
List(l) == [t |-> "list", l |-> l]

\* Python truthiness of a value
Truthy(v) ==
    CASE v.t = "none" -> FALSE
      [] v.t = "str"  -> v.s # <<>>
      [] v.t = "num"  -> v.n # 0
      [] v.t = "dict" -> DOMAIN v.d # {}
      [] v.t = "list" -> v.l # <<>>

\* it.get(k)
Get(it, k) == IF k \in DOMAIN it THEN it[k] ELSE NoneV

\* it.get(k, default)
GetD(it, k, default) == IF k \in DOMAIN it THEN it[k] ELSE default

\* a or b
Or(a, b) == IF Truthy(a) THEN a ELSE b

\* it[k] = v
Put(it, k, v) == (k :> v) @@ it

Digits == <<"0","1","2","3","4","5","6","7","8","9">>

\* str(n) for a natural number
RECURSIVE NatStr(_)
NatStr(n) == IF n < 10 THEN <<Digits[n + 1]>> ELSE NatStr(n \div 10) \o <<Digits[(n % 10) + 1]>>

\* str(v) for the value shapes of the model
PyStr(v) ==
    CASE v.t = "str"  -> v.s
      [] v.t = "none" -> <<"N","o","n","e">>
      [] v.t = "num"  -> IF v.n < 0 THEN <<"-">> \o NatStr(-v.n) ELSE NatStr(v.n)
      [] OTHER        -> <<"{","}">>

\* ------------------------------------------------------------------------
\* Record accessors (src/app.py 187-262)
\* ------------------------------------------------------------------------
item_id_raw(it) ==
    LET v == Or(Or(Or(Or(Get(it, "refnr"), Get(it, "refNr")), Get(it, "hashId")),
                   Get(it, "hashID")), Str(<<>>))
    IN  IF v.t # "none" THEN Strip(PyStr(v)) ELSE <<>>

item_title(it) ==
    LET v == Or(Or(Or(Get(it, "titel"), Get(it, "beruf")), Get(it, "title")),
                Str(<<"O","h","n","e"," ","T","i","t","e","l">>))
    IN  PyStr(v)

item_company(it) ==
    LET v == Or(Or(Or(Get(it, "arbeitgeber"), Get(it, "arbeitgeberName")),
                   Get(it, "unternehmen")), Str(<<>>))
    IN  PyStr(v)

\* (loc.get(k) or "").strip() of a structured location
LocPart(loc, k) == LET v == Or(Get(loc.d, k), Str(<<>>)) IN Strip(v.s)

Dash == <<"-">>

pretty_location(it) ==
    LET loc == Or(Or(Get(it, "arbeitsort"), Get(it, "ort")), Get(it, "wo"))
    IN  CASE loc.t = "str"  -> loc.s
          [] loc.t = "dict" ->
                LET parts == SelectSeq(<<LocPart(loc, "ort"), LocPart(loc, "region"),
                                         LocPart(loc, "land")>>,
                                       LAMBDA p : p # <<>>)
                IN  IF parts # <<>> THEN Join(<<",", " ">>, parts) ELSE Dash
          [] loc.t = "none" -> Dash
          [] OTHER          -> PyStr(loc)

\* hashlib.sha1(base).hexdigest()[:16], taken as collision-free: an opaque
\* digest that determines, and is determined by, its input
Sha1Hex16(base) == <<"#">> \o base

\* an identity key that hashes the content as written, without lowercasing
ItemKeyCaseSensitive(it) ==
    LET rid == item_id_raw(it)
    IN  IF rid # <<>>
        THEN <<"b","a",":">> \o rid
        ELSE <<"h","x",":">>
             \o Sha1Hex16(Strip(item_title(it) \o <<"|">> \o item_company(it)
                                \o <<"|">> \o pretty_location(it)))

item_key(it) ==
    LET rid == item_id_raw(it)
    IN  IF rid # <<>>
        THEN <<"b","a",":">> \o rid
        ELSE LET base == Lower(Strip(item_title(it) \o <<"|">> \o item_company(it)
                                     \o <<"|">> \o pretty_location(it)))
             IN  <<"h","x",":">> \o Sha1Hex16(base)

\* the number a text of digits denotes
RECURSIVE ParseNat(_)
ParseNat(s) ==
    IF s = <<>> THEN 0
    ELSE 10 * ParseNat(SubSeq(s, 1, Len(s) - 1))
         + (CHOOSE d \in 0..9 : Digits[d + 1] = s[Len(s)])

\* float(v): <<TRUE, x>>, or <<FALSE, 0>> when float() raises (a text that is
\* no number: ValueError; a list, a mapping: TypeError)
ToFloat(v) ==
    CASE v.t = "num" -> <<TRUE, v.n>>
      [] v.t = "str" /\ Strip(v.s) # <<>> /\ \A i \in 1..Len(Strip(v.s)) :
                                                \E d \in 1..10 : Digits[d] = Strip(v.s)[i]
                       -> <<TRUE, ParseNat(Strip(v.s))>>
      [] OTHER -> <<FALSE, 0>>

\* lat/lon of a koordinaten mapping; None when a part is missing or not numeric
LatLonOf(coords) ==
    LET lat == Get(coords.d, "lat")
        lon == Get(coords.d, "lon")
    IN  IF lat.t # "none" /\ lon.t # "none" /\ ToFloat(lat)[1] /\ ToFloat(lon)[1]
        THEN <<ToFloat(lat)[2], ToFloat(lon)[2]>>
        ELSE <<>>

\* None is the empty tuple
extract_latlon_from_item(it) ==
    LET loc     == Or(Get(it, "arbeitsort"), Dict(<<>>))
        coords  == IF loc.t = "dict" THEN Or(Get(loc.d, "koordinaten"), Dict(<<>>)) ELSE NoneV
        first   == IF coords.t = "dict" THEN LatLonOf(coords) ELSE <<>>
        coords2 == Get(it, "koordinaten")
    IN  IF first # <<>> THEN first
        ELSE IF coords2.t = "dict" THEN LatLonOf(coords2)
        ELSE <<>>

\* pretty_location raises AttributeError: a sub-field of a structured location
\* is truthy and no text, so (loc.get(k) or "") has no strip
pretty_location_raises(it) ==
    LET loc == Or(Or(Get(it, "arbeitsort"), Get(it, "ort")), Get(it, "wo"))
    IN  /\ loc.t = "dict"
        /\ \E k \in {"ort", "region", "land"} : Or(Get(loc.d, k), Str(<<>>)).t # "str"

BASE == <<"h","t","t","p","s",":","/","/","r","e","s","t",".","a","r","b","e","i","t","s","a","g","e","n","t","u","r",".","d","e","/","j","o","b","b","o","e","r","s","e","/","j","o","b","s","u","c","h","e","-","s","e","r","v","i","c","e">>

\* s.startswith(p)
StartsWith(s, p) == Len(s) >= Len(p) /\ SubSeq(s, 1, Len(p)) = p

\* v["href"] when links.get(k) is a mapping with a text href, else None
LinkHref(links, k) ==
    LET v == Get(links.d, k)
    IN  IF v.t = "dict" /\ Get(v.d, "href").t = "str" THEN Get(v.d, "href") ELSE NoneV

\* details_url_api raises AttributeError: _links is truthy and no mapping, so
\* links has no get
details_url_api_raises(it) == Or(Get(it, "_links"), Dict(<<>>)).t # "dict"

details_url_api(it) ==
    LET links == Or(Get(it, "_links"), Dict(<<>>))
        href  == IF LinkHref(links, "details").t = "str" THEN LinkHref(links, "details")
                 ELSE LinkHref(links, "jobdetails")
    IN  IF href.t # "str" THEN NoneV
        ELSE IF StartsWith(href.s, <<"h","t","t","p">>) THEN href
        ELSE Str(BASE \o href.s)

\* the first of the fields keys that holds a text with more than blanks,
\* stripped; else the empty text
RECURSIVE short_field(_, _)
short_field(it, keys) ==
    IF keys = <<>> THEN <<>>
    ELSE LET v == Get(it, Head(keys))
         IN  IF v.t = "str" /\ Strip(v.s) # <<>> THEN Strip(v.s)
             ELSE short_field(it, Tail(keys))

\* ------------------------------------------------------------------------
\* Distance (src/app.py 346-378)
\* ------------------------------------------------------------------------
DEFAULT_HOME_LAT == 512861
DEFAULT_HOME_LON == 118900

\* the places of the model: home, Merseburg, Halle, Leipzig, the antipode of home
Places == {<<512861, 118900>>, <<513548, 119892>>, <<514825, 119706>>,
           <<513397, 123731>>, <<-512861, -1681100>>}

\* the great-circle distance from home to a place of the model, as the
\* formula gives it, in whole km
haversine_km(lat1, lon1, lat2, lon2) ==
    CASE <<lat2, lon2>> = <<lat1, lon1>>         -> 0
      [] <<lat2, lon2>> = <<513548, 119892>>     -> 10
      [] <<lat2, lon2>> = <<514825, 119706>>     -> 23
      [] <<lat2, lon2>> = <<513397, 123731>>     -> 34
      [] <<lat2, lon2>> = <<-512861, -1681100>>  -> 20015

\* None is -1
distance_from_home_km(it, home_lat, home_lon) ==
    LET ll == extract_latlon_from_item(it)
    IN  IF ll = <<>> THEN -1 ELSE haversine_km(home_lat, home_lon, ll[1], ll[2])

\* distance_bucket with strict comparisons
distance_bucket_strict(dist_km, near_km, mid_km) ==
    IF dist_km = -1 THEN "na"
    ELSE IF dist_km < near_km THEN "green"
    ELSE IF dist_km < mid_km THEN "yellow"
    ELSE "red"

\* the tiers of a distance: None (-1) is "na"
distance_bucket(dist_km, near_km, mid_km) ==
    IF dist_km = -1 THEN "na"
    ELSE IF dist_km <= near_km THEN "green"
    ELSE IF dist_km <= mid_km THEN "yellow"
    ELSE "red"

\* ------------------------------------------------------------------------
\* State
\* ------------------------------------------------------------------------
VARIABLES
    kw_focus, kw_lead, kw_neg,   \* st.session_state keyword texts
    save_snapshot_requested,     \* st.session_state["save_snapshot_requested"]
    snapshot_file,               \* .jobwatch_state/snapshot.json: NoFile or its payload
    clock,                       \* datetime.now(), in seconds
    pc,                          \* position of the script run
    ui,                          \* the widget values of the run
    delete_pressed,              \* st.button("Stand loeschen") of the run
    snap,                        \* load_snapshot() of the run
    calls,                       \* the fetch_search calls made so far in the run
    all_items, errs,             \* the search loop's accumulators
    items_dedup,                 \* items_now after the dedup loop
    items_now,                   \* items_now after the filters
    new_keys,                    \* now_keys - prev_keys
    items_sorted,                \* the ranked, numbered list
    arg, res,                    \* argument and result of a function applied on its own
    company_file,                \* .jobwatch_state/company_state.json: name -> entry
    check_history,               \* per organisation, the counts its mark-checked actions
                                 \* recorded since its entry was created or reset
    company_pressed              \* the button of the company tab pressed in the latest
                                 \* render and its organisation, <<>> for none

sessionVars == <<kw_focus, kw_lead, kw_neg, save_snapshot_requested>>
runVars == <<pc, ui, delete_pressed, snap, calls, all_items, errs, items_dedup, items_now, new_keys,
             items_sorted>>
companyVars == <<company_file, check_history, company_pressed>>
vars == <<kw_focus, kw_lead, kw_neg, save_snapshot_requested, snapshot_file, clock,
          pc, ui, delete_pressed, snap, calls, all_items, errs, items_dedup, items_now,
          new_keys, items_sorted, arg, res, company_file, check_history,
          company_pressed>>

\* no company state file, no button of the company tab pressed yet
CompanyAtRest == company_file = <<>> /\ check_history = <<>> /\ company_pressed = <<>>

\* ------------------------------------------------------------------------
\* Keywords (src/app.py 409-413, 651-653)
\* ------------------------------------------------------------------------
\* s.split(c): the pieces of s between the occurrences of the character c
RECURSIVE SplitOn(_, _)
SplitOn(s, c) ==
    IF \A i \in 1..Len(s) : s[i] # c THEN <<s>>
    ELSE LET i == CHOOSE j \in 1..Len(s) : s[j] = c /\ \A k \in 1..(j - 1) : s[k] # c
         IN  <<SubSeq(s, 1, i - 1)>> \o SplitOn(SubSeq(s, i + 1, Len(s)), c)

\* s.splitlines(): no line for the empty text nor after a final line break
SplitLines(s) ==
    LET pieces == SplitOn(s, "\n")
    IN  IF pieces[Len(pieces)] = <<>> THEN SubSeq(pieces, 1, Len(pieces) - 1) ELSE pieces

StripAll(ps) == AsSeq([i \in 1..Len(ps) |-> Strip(ps[i])])

RECURSIVE ExtendAll(_)
ExtendAll(lines) ==
    IF lines = <<>> THEN <<>>
    ELSE StripAll(SplitOn(Head(lines), ",")) \o ExtendAll(Tail(lines))

parse_keywords(text) == SelectSeq(ExtendAll(SplitLines(text)), LAMBDA x : x # <<>>)

LowerAll(words) == AsSeq([i \in 1..Len(words) |-> Lower(words[i])])

FOCUS_KEYWORDS == LowerAll(parse_keywords(kw_focus))
LEADERSHIP_KEYWORDS == LowerAll(parse_keywords(kw_lead))
NEGATIVE_KEYWORDS == LowerAll(parse_keywords(kw_neg))

\* ------------------------------------------------------------------------
\* Relevance score (src/app.py 687-744)
\* ------------------------------------------------------------------------
\* strict_terms of looks_leadership_strict
STRICT_TERMS ==
    << <<"l","a","b","o","r","l","e","i","t","e","r">>,
       <<"t","e","a","m","l","e","i","t","e","r">>,
       <<"g","r","u","p","p","e","n","l","e","i","t","e","r">>,
       <<"a","b","t","e","i","l","u","n","g","s","l","e","i","t","e","r">>,
       <<"b","e","r","e","i","c","h","s","l","e","i","t","e","r">>,
       <<" ","h","e","a","d"," ","o","f"," ">>,
       <<"d","i","r","e","c","t","o","r">> >>

\* the text looks_leadership_strict searches: title and short description
StrictText(it) ==
    Lower(Join(<<" ">>, <<item_title(it), PyStr(GetD(it, "kurzbeschreibung", Str(<<>>)))>>))

looks_leadership_strict(it) ==
    \E text \in {StrictText(it)} :
        \/ Contains(<<" ">> \o text \o <<" ">>, <<" ","l","e","i","t","e","r"," ">>)
        \/ \E i \in 1..Len(STRICT_TERMS) : Contains(text, STRICT_TERMS[i])

is_homeoffice_item(it) ==
    LET b == Lower(PyStr(GetD(it, "_bucket", Str(<<>>))))
    IN  IF Contains(b, <<"h","o","m","e","o","f","f","i","c","e">>) THEN TRUE
        ELSE Lower(PyStr(GetD(it, "arbeitszeit", Str(<<>>)))) = <<"h","o">>

\* the lowercased haystack of score_breakdown
Haystack(it) ==
    Lower(Join(<<" ">>, <<item_title(it), PyStr(GetD(it, "kurzbeschreibung", Str(<<>>))),
                          item_company(it), pretty_location(it)>>))

\* a keyword loop that counts a repeated term once
HitsOncePerTerm(kws, text) ==
    CHOOSE r \in {SelectSeq(AsSeq([i \in 1..Len(ks) |->
                                      IF \E j \in 1..(i - 1) : ks[j] = ks[i] THEN <<>> ELSE ks[i]]),
                            LAMBDA k : k # <<>> /\ Contains(t, k)) :
                      ks \in {kws}, t \in {text}} : TRUE

\* the terms of a keyword list that a keyword loop counts, in list order
Hits(kws, text) ==
    CHOOSE r \in {SelectSeq(ks, LAMBDA k : k # <<>> /\ Contains(t, k)) :
                      ks \in {kws}, t \in {text}} : TRUE

\* the parts a keyword loop appends for its hits
Labelled(label, hits) ==
    CHOOSE r \in {AsSeq([i \in 1..Len(h) |-> label \o h[i]]) : h \in {hits}} : TRUE

FOCUS_POINTS == 10
LEADERSHIP_POINTS == 6
NEGATIVE_POINTS == 12

\* <<score, parts>>
NoHitsPart ==
    <<"(","k","e","i","n","e"," ","K","e","y","w","o","r","d","-","T","r","e","f","f","e","r",")">>

\* a scorer that adds the focus points once, however many focus terms hit
ScoreAndPartsFocusOnce(f, l, n, ho, ho_bonus_val) ==
    <<FOCUS_POINTS * (IF f = <<>> THEN 0 ELSE 1) + LEADERSHIP_POINTS * Len(l)
          - NEGATIVE_POINTS * Len(n) + (IF ho THEN ho_bonus_val ELSE 0),
      <<NoHitsPart>> >>

\* a scorer that leaves the parts empty when nothing contributed
ScoreAndPartsNoPlaceholder(f, l, n, ho, ho_bonus_val) ==
    <<FOCUS_POINTS * Len(f) + LEADERSHIP_POINTS * Len(l)
          - NEGATIVE_POINTS * Len(n) + (IF ho THEN ho_bonus_val ELSE 0),
      Labelled(<<"+","1","0"," ">>, f) \o Labelled(<<"+","6"," ">>, l)
          \o Labelled(<<"-","1","2"," ">>, n)
          \o (IF ho
              THEN << <<"+">> \o NatStr(ho_bonus_val)
                      \o <<" ","h","o","m","e","o","f","f","i","c","e">> >>
              ELSE <<>>) >>

\* score and parts once the three keyword loops found the hits f, l, n and the
\* homeoffice bonus applies or not
ScoreAndParts(f, l, n, ho, ho_bonus_val) ==
    LET score == FOCUS_POINTS * Len(f) + LEADERSHIP_POINTS * Len(l)
                 - NEGATIVE_POINTS * Len(n) + (IF ho THEN ho_bonus_val ELSE 0)
        parts == Labelled(<<"+","1","0"," ">>, f) \o Labelled(<<"+","6"," ">>, l)
                 \o Labelled(<<"-","1","2"," ">>, n)
                 \o (IF ho
                     THEN << <<"+">> \o NatStr(ho_bonus_val)
                             \o <<" ","h","o","m","e","o","f","f","i","c","e">> >>
                     ELSE <<>>)
    IN  <<score, IF f = <<>> /\ l = <<>> /\ n = <<>> /\ ~ho THEN <<NoHitsPart>> ELSE parts>>

\* <<score, parts>>
score_breakdown(it, ho_bonus_val) ==
    CHOOSE r \in
        {ScoreAndParts(f, l, n, ho, ho_bonus_val) :
            f  \in {Hits(FOCUS_KEYWORDS, Haystack(it))},
            l  \in {Hits(LEADERSHIP_KEYWORDS, Haystack(it))},
            n  \in {Hits(NEGATIVE_KEYWORDS, Haystack(it))},
            ho \in {is_homeoffice_item(it) /\ ho_bonus_val > 0}} : TRUE

relevance_score(it, ho_bonus_val) == score_breakdown(it, ho_bonus_val)[1]

HardTerms ==
    << <<"v","o","r","s","t","a","n","d","s","a","s","s","i","s","t","e","n","z">>,
       <<"m","a","n","a","g","e","m","e","n","t"," ","a","s","s","i","s","t","a","n","t">>,
       <<"a","s","s","i","s","t","a","n","t">>,
       <<"a","s","s","i","s","t","e","n","z">>,
       <<"s","e","k","r","e","t","a","r","i","a","t">>,
       <<"i","n","s","u","r","a","n","c","e">>,
       <<"v","e","r","s","i","c","h","e","r","u","n","g">> >>

is_probably_irrelevant(it) ==
    LET text == Lower(item_title(it) \o <<" ">>
                      \o PyStr(GetD(it, "kurzbeschreibung", Str(<<>>))))
    IN  \E i \in 1..Len(HardTerms) : Contains(text, HardTerms[i])

\* ------------------------------------------------------------------------
\* Target organisations (src/app.py 102-163, 429-436)
\* ------------------------------------------------------------------------
\* the directory, without the url of each entry (the matcher and the ranking
\* read name, match and priority only)
TARGET_ORGS == <<
    [name |-> "InfraLeuna", match |-> << <<"i","n","f","r","a","l","e","u","n","a">> >>],
    [name |-> "TotalEnergies / Raffinerie Leuna", match |-> << <<"t","o","t","a","l","e","n","e","r","g","i","e","s">>, <<"r","a","f","f","i","n","e","r","i","e">>, <<"l","e","u","n","a">> >>],
    [name |-> "Dow (Schkopau/Boehlen)", match |-> << <<"d","o","w">>, <<"o","l","e","f","i","n","v","e","r","b","u","n","d">> >>],
    [name |-> "Trinseo (Schkopau)", match |-> << <<"t","r","i","n","s","e","o">> >>],
    [name |-> "DOMO / Caproleuna", match |-> << <<"d","o","m","o">>, <<"c","a","p","r","o","l","e","u","n","a">> >>],
    [name |-> "UPM Biochemicals (Leuna)", match |-> << <<"u","p","m">> >>],
    [name |-> "ADDINOL (Leuna)", match |-> << <<"a","d","d","i","n","o","l">> >>],
    [name |-> "Arkema", match |-> << <<"a","r","k","e","m","a">> >>],
    [name |-> "Eastman", match |-> << <<"e","a","s","t","m","a","n">> >>],
    [name |-> "Innospec", match |-> << <<"i","n","n","o","s","p","e","c">> >>],
    [name |-> "Shell (Catalysts/Leuna)", match |-> << <<"s","h","e","l","l">>, <<"c","a","t","a","l","y","s","t","s">> >>],
    [name |-> "Linde", match |-> << <<"l","i","n","d","e">> >>],
    [name |-> "Air Liquide", match |-> << <<"a","i","r"," ","l","i","q","u","i","d","e">> >>],
    [name |-> "BASF", match |-> << <<"b","a","s","f">> >>],
    [name |-> "Wacker Chemie", match |-> << <<"w","a","c","k","e","r">> >>],
    [name |-> "Verbio (Leipzig)", match |-> << <<"v","e","r","b","i","o">> >>],
    [name |-> "VNG (Leipzig)", match |-> << <<"v","n","g">> >>],
    [name |-> "Siemens Energy", match |-> << <<"s","i","e","m","e","n","s"," ","e","n","e","r","g","y">> >>],
    [name |-> "Siemens (allgemein)", match |-> << <<"s","i","e","m","e","n","s">> >>],
    [name |-> "BMW Werk Leipzig", match |-> << <<"b","m","w">> >>],
    [name |-> "Porsche Leipzig", match |-> << <<"p","o","r","s","c","h","e">> >>],
    [name |-> "DHL Hub Leipzig", match |-> << <<"d","h","l">>, <<"d","e","u","t","s","c","h","e"," ","p","o","s","t">>, <<"h","u","b"," ","l","e","i","p","z","i","g">> >>],
    [name |-> "Mitteldeutsche Flughafen AG (LEJ)", match |-> << <<"m","i","t","t","e","l","d","e","u","t","s","c","h","e"," ","f","l","u","g","h","a","f","e","n">>, <<"f","l","u","g","h","a","f","e","n"," ","l","e","i","p","z","i","g">>, <<"l","e","i","p","z","i","g","/","h","a","l","l","e">>, <<"l","e","i","p","z","i","g","-","h","a","l","l","e">> >>],
    [name |-> "Stadtwerke Leipzig / Leipziger Gruppe", match |-> << <<"s","t","a","d","t","w","e","r","k","e"," ","l","e","i","p","z","i","g">>, <<"l","e","i","p","z","i","g","e","r"," ","g","r","u","p","p","e">>, <<"l","-","g","r","u","p","p","e">>, <<"l",".","d","e">> >>],
    [name |-> "enviaM-Gruppe", match |-> << <<"e","n","v","i","a","m">>, <<"e","n","v","i","a">>, <<"m","i","t","g","a","s">> >>],
    [name |-> "GBA Group", match |-> << <<"g","b","a">> >>],
    [name |-> "Eurofins", match |-> << <<"e","u","r","o","f","i","n","s">> >>],
    [name |-> "SGS", match |-> << <<"s","g","s">> >>],
    [name |-> "DEKRA", match |-> << <<"d","e","k","r","a">> >>],
    [name |-> "UFZ Helmholtz (Leipzig)", match |-> << <<"u","f","z">>, <<"h","e","l","m","h","o","l","t","z","-","z","e","n","t","r","u","m">>, <<"u","m","w","e","l","t","f","o","r","s","c","h","u","n","g">> >>],
    [name |-> "DBFZ Leipzig", match |-> << <<"d","b","f","z">>, <<"d","e","u","t","s","c","h","e","s"," ","b","i","o","m","a","s","s","e","f","o","r","s","c","h","u","n","g","s","z","e","n","t","r","u","m">> >>, priority |-> "high"],
    [name |-> "Fraunhofer IZI (Leipzig)", match |-> << <<"f","r","a","u","n","h","o","f","e","r"," ","i","z","i">>, <<"i","z","i">> >>],
    [name |-> "Fraunhofer IMWS (Halle)", match |-> << <<"f","r","a","u","n","h","o","f","e","r"," ","i","m","w","s">>, <<"i","m","w","s">>, <<"m","i","k","r","o","s","t","r","u","k","t","u","r">>, <<"m","i","k","r","o","s","t","r","u","k","t","u","r"," ","v","o","n"," ","w","e","r","k","s","t","o","f","f","e","n">>, <<"h","a","l","l","e"," ","(","s","a","a","l","e",")">> >>, priority |-> "high"],
    [name |-> "Fraunhofer (Jobportal)", match |-> << <<"f","r","a","u","n","h","o","f","e","r">> >>],
    [name |-> "Leibniz-Institut fuer Oberflaechenmodifizierung (IOM)", match |-> << <<"l","e","i","b","n","i","z"," ","i","o","m">>, <<"i","o","m"," ","l","e","i","p","z","i","g">>, <<"o","b","e","r","f","l","a","e","c","h","e","n","m","o","d","i","f","i","z","i","e","r","u","n","g">>, <<"i","o","m">> >>, priority |-> "high"],
    [name |-> "Leibniz IPB (Halle)", match |-> << <<"i","p","b">>, <<"p","f","l","a","n","z","e","n","b","i","o","c","h","e","m","i","e">>, <<"l","e","i","b","n","i","z">> >>],
    [name |-> "Max-Planck-Gesellschaft (Stellenboerse)", match |-> << <<"m","a","x","-","p","l","a","n","c","k">>, <<"m","a","x"," ","p","l","a","n","c","k">>, <<"m","p","g">> >>],
    [name |-> "Universitaet Leipzig (Stellen)", match |-> << <<"u","n","i","v","e","r","s","i","t","a","e","t"," ","l","e","i","p","z","i","g">>, <<"u","n","i"," ","l","e","i","p","z","i","g">> >>],
    [name |-> "MLU Halle (Stellen)", match |-> << <<"m","a","r","t","i","n","-","l","u","t","h","e","r","-","u","n","i","v","e","r","s","i","t","a","e","t">>, <<"u","n","i","v","e","r","s","i","t","a","e","t"," ","h","a","l","l","e">>, <<"u","n","i"," ","h","a","l","l","e">>, <<"m","l","u">> >>],
    [name |-> "Hochschule Merseburg", match |-> << <<"h","o","c","h","s","c","h","u","l","e"," ","m","e","r","s","e","b","u","r","g">>, <<"h","s"," ","m","e","r","s","e","b","u","r","g">> >>],
    [name |-> "HTWK Leipzig (Stellen)", match |-> << <<"h","t","w","k">> >>],
    [name |-> "MFPA Leipzig GmbH", match |-> << <<"m","f","p","a"," ","l","e","i","p","z","i","g">>, <<"m","f","p","a">>, <<"p","r","u","e","f","a","n","s","t","a","l","t">>, <<"m","a","t","e","r","i","a","l","f","o","r","s","c","h","u","n","g","s">> >>, priority |-> "high"],
    [name |-> "MFPA Leipzig - Waermeleitfaehigkeit (Service)", match |-> << <<"m","f","p","a"," ","l","e","i","p","z","i","g">>, <<"m","f","p","a">> >>],
    [name |-> "Universitaet Leipzig - Technische Chemie (Equipment)", match |-> << <<"i","n","s","t","i","t","u","t"," ","f","u","e","r"," ","t","e","c","h","n","i","s","c","h","e"," ","c","h","e","m","i","e">>, <<"t","e","c","h","n","i","c","a","l"," ","c","h","e","m","i","s","t","r","y">>, <<"u","n","i","v","e","r","s","i","t","a","e","t"," ","l","e","i","p","z","i","g">>, <<"u","n","i"," ","l","e","i","p","z","i","g">> >>],
    [name |-> "MLU Halle - Thermal analysis (Geo/MinGeo)", match |-> << <<"g","e","o",".","u","n","i","-","h","a","l","l","e">>, <<"t","h","e","r","m","a","l","a","n","a","l","y","s","i","s">>, <<"m","l","u">>, <<"u","n","i"," ","h","a","l","l","e">>, <<"m","a","r","t","i","n","-","l","u","t","h","e","r">> >>],
    [name |-> "HTWK Leipzig - MNZ Werkstoffpruefung", match |-> << <<"m","n","z">>, <<"h","t","w","k">> >>],
    [name |-> "TZO Leipzig - Labor Umwelterprobung & Werkstoffpruefung", match |-> << <<"t","z","o"," ","l","e","i","p","z","i","g">>, <<"l","u","w">> >>] >>

\* any(m in c for m in org.get("match", []))
OrgHit(org, c) ==
    "match" \in DOMAIN org /\ \E j \in 1..Len(org.match) : Contains(c, org.match[j])

\* a loop that keeps the last entry that hits
LastHit(orgs, c) ==
    LET hits == {i \in 1..Len(orgs) : OrgHit(orgs[i], c)}
    IN  IF hits = {} THEN <<>>
        ELSE orgs[CHOOSE i \in hits : \A j \in hits : j <= i]

\* the for loop of match_target_org over the directory orgs: the first entry
\* that hits; None is <<>>
FirstHit(orgs, c) ==
    LET hits == {i \in 1..Len(orgs) : OrgHit(orgs[i], c)}
    IN  IF hits = {} THEN <<>>
        ELSE orgs[CHOOSE i \in hits : \A j \in hits : i <= j]

MatchIn(orgs, company) ==
    CHOOSE r \in {IF Strip(c) = <<>> THEN <<>> ELSE FirstHit(orgs, c) :
                      c \in {Lower(company)}} : TRUE

match_target_org(company) == MatchIn(TARGET_ORGS, company)

IsHighPriority(org) == org # <<>> /\ "priority" \in DOMAIN org /\ org.priority = "high"

\* ------------------------------------------------------------------------
\* Snapshot file (src/app.py 25-46)
\* ------------------------------------------------------------------------
NoFile == [exists |-> FALSE]

\* a load that stamps the snapshot it makes up for a missing file
load_snapshot_stamped ==
    IF ~snapshot_file.exists
    THEN [timestamp |-> Num(0), items |-> <<>>]
    ELSE [timestamp |-> snapshot_file.timestamp, items |-> snapshot_file.items]

load_snapshot ==
    IF ~snapshot_file.exists
    THEN [timestamp |-> NoneV, items |-> <<>>]
    ELSE [timestamp |-> snapshot_file.timestamp, items |-> snapshot_file.items]

\* the file save_snapshot(items) writes at time now
save_snapshot(items, now) == [exists |-> TRUE, timestamp |-> Num(now), items |-> items]

\* ------------------------------------------------------------------------
\* Search call (src/app.py 176-184, 282-326)
\* ------------------------------------------------------------------------
extract_items(data) ==
    LET emb == Or(Get(data.d, "_embedded"), Dict(<<>>))
    IN  IF Get(data.d, "stellenangebote").t = "list" THEN Get(data.d, "stellenangebote").l
        ELSE IF emb.t = "dict" /\ Get(emb.d, "jobs").t = "list" THEN Get(emb.d, "jobs").l
        ELSE IF Get(data.d, "jobs").t = "list" THEN Get(data.d, "jobs").l
        ELSE <<>>

\* data.get(...) on a JSON value that is no object raises AttributeError
extract_items_raises(data) == data.t # "dict"

NoErr == "None"

\* fetch_search leaves by an exception: the body of a 200 response is valid
\* JSON and extract_items raises on it, outside the two try blocks
fetch_search_raises(http) ==
    /\ http.kind = "response" /\ http.status = 200 /\ http.json
    /\ extract_items_raises(http.data)

\* <<items, error>> for the outcome http of requests.get
fetch_search(http) ==
    CASE http.kind = "exception" -> << <<>>, "Request-Fehler" >>
      [] http.kind = "response" /\ http.status # 200 -> << <<>>, "Suche HTTP" >>
      [] http.kind = "response" /\ http.status = 200 /\ ~http.json ->
            << <<>>, "Suche: Antwort war kein gueltiges JSON." >>
      [] OTHER -> << extract_items(http.data), NoErr >>

\* ------------------------------------------------------------------------
\* One script run (src/app.py 568-670, 768-867)
\* ------------------------------------------------------------------------
P_RD == <<"R","&","D">>
P_PM == <<"P","r","o","j","e","k","t","m","a","n","a","g","e","m","e","n","t">>
P_SALES == <<"V","e","r","t","r","i","e","b">>

\* the keys of build_queries()
QueryNames == {P_RD, P_PM, P_SALES}

OnSiteBucket(u) ==
    <<"V","o","r"," ","O","r","t"," ","(">> \o NatStr(u.umkreis) \o <<" ","k","m",")">>

HomeofficeBucket(u) ==
    <<"H","o","m","e","o","f","f","i","c","e"," ","(">> \o NatStr(u.ho_umkreis)
        \o <<" ","k","m",")">>

\* the calls of the search loop, in order: per profile the on-site call, then
\* the homeoffice call when include_ho
RECURSIVE CallPlan(_, _)
CallPlan(profiles, include_ho) ==
    IF profiles = <<>> THEN <<>>
    ELSE << <<Head(profiles), "vor Ort">> >>
         \o (IF include_ho THEN << <<Head(profiles), "homeoffice">> >> ELSE <<>>)
         \o CallPlan(Tail(profiles), include_ho)

\* it["_profile"] = name; it["_bucket"] = ...
Tagged(items, name, bucket) ==
    CHOOSE r \in {AsSeq([i \in 1..Len(its) |->
                            Put(Put(its[i], "_profile", Str(n)), "_bucket", Str(b))]) :
                      its \in {items}, n \in {name}, b \in {bucket}} : TRUE

\* the dedup loop: <<items_now, seen>>
\* a dedup loop that lets a later record replace the kept one of its key
RECURSIVE DedupLoopKeepLast(_, _)
DedupLoopKeepLast(items, n) ==
    IF n = 0 THEN << <<>>, {} >>
    ELSE CHOOSE r \in
            {IF k \notin prev[2]
             THEN <<Append(prev[1], Put(items[n], "_key", Str(k))), prev[2] \cup {k}>>
             ELSE <<AsSeq([p \in 1..Len(prev[1]) |->
                              IF prev[1][p]["_key"] = Str(k)
                              THEN Put(items[n], "_key", Str(k)) ELSE prev[1][p]]),
                    prev[2]>> :
                prev \in {DedupLoopKeepLast(items, n - 1)}, k \in {item_key(items[n])}} : TRUE

\* the dedup loop after its first n iterations: <<items_now, seen>>
RECURSIVE DedupLoop(_, _)
DedupLoop(items, n) ==
    IF n = 0 THEN << <<>>, {} >>
    ELSE CHOOSE r \in
            {IF k \notin prev[2]
             THEN <<Append(prev[1], Put(items[n], "_key", Str(k))), prev[2] \cup {k}>>
             ELSE prev :
                prev \in {DedupLoop(items, n - 1)}, k \in {item_key(items[n])}} : TRUE

Dedup(items) == DedupLoop(items, Len(items))[1]

\* a filter step whose score filter is nested in the irrelevance toggle
FilteredNested(items, u) ==
    IF u.hide_irrelevant
    THEN LET a == SelectSeq(items, LAMBDA it : ~is_probably_irrelevant(it))
         IN  IF u.only_focus
             THEN SelectSeq(a, LAMBDA it : relevance_score(it, u.ho_bonus) >= u.min_score)
             ELSE a
    ELSE items

Filtered(items, u) ==
    LET a == IF u.hide_irrelevant
             THEN SelectSeq(items, LAMBDA it : ~is_probably_irrelevant(it))
             ELSE items
    IN  IF u.only_focus
        THEN SelectSeq(a, LAMBDA it : relevance_score(it, u.ho_bonus) >= u.min_score)
        ELSE a

\* x.get("_key") or item_key(x)
KeyOf(x) == IF Truthy(Get(x, "_key")) THEN Get(x, "_key").s ELSE item_key(x)

KeySet(items) == {KeyOf(items[i]) : i \in 1..Len(items)}

NO_DISTANCE_RANK == 999999

\* a sort key that ranks by distance before priority
SortKeyDistanceFirst(it, newKeys, u) ==
    LET org  == match_target_org(item_company(it))
        dist == distance_from_home_km(it, u.home_lat, u.home_lon)
    IN  << IF dist # -1 THEN dist ELSE NO_DISTANCE_RANK,
           IF IsHighPriority(org) THEN -1 ELSE 0,
           IF Truthy(Get(it, "_key")) /\ Get(it, "_key").s \in newKeys THEN 0 ELSE 1,
           -relevance_score(it, u.ho_bonus),
           Lower(item_title(it)) >>

\* a sort key that ranks a missing distance as it stands, without the sentinel
SortKeyNoSentinel(it, newKeys, u) ==
    LET org  == match_target_org(item_company(it))
        dist == distance_from_home_km(it, u.home_lat, u.home_lon)
    IN  << IF IsHighPriority(org) THEN -1 ELSE 0,
           dist,
           IF Truthy(Get(it, "_key")) /\ Get(it, "_key").s \in newKeys THEN 0 ELSE 1,
           -relevance_score(it, u.ho_bonus),
           Lower(item_title(it)) >>

sort_key(it, newKeys, u) ==
    LET org  == match_target_org(item_company(it))
        dist == distance_from_home_km(it, u.home_lat, u.home_lon)
    IN  << IF IsHighPriority(org) THEN -1 ELSE 0,
           IF dist # -1 THEN dist ELSE NO_DISTANCE_RANK,
           IF Truthy(Get(it, "_key")) /\ Get(it, "_key").s \in newKeys THEN 0 ELSE 1,
           -relevance_score(it, u.ho_bonus),
           Lower(item_title(it)) >>

\* code point order of the characters of the model
CharOrder == <<"\n", " ", "#", "&", "(", ")", "+", ",", "-", ".", "/",
               "0","1","2","3","4","5","6","7","8","9", ":">>
             \o UpperAlpha \o <<"_">> \o LowerAlpha \o <<"{", "|", "}">>

Ord(c) == CHOOSE i \in 1..Len(CharOrder) : CharOrder[i] = c

\* a < b on Python strings
RECURSIVE StrLess(_, _)
StrLess(a, b) ==
    IF b = <<>> THEN FALSE
    ELSE IF a = <<>> THEN TRUE
    ELSE IF Head(a) # Head(b) THEN Ord(Head(a)) < Ord(Head(b))
    ELSE StrLess(Tail(a), Tail(b))

\* a < b on the tuples sort_key returns
KeyLess(a, b) ==
    \/ a[1] < b[1]
    \/ a[1] = b[1] /\ a[2] < b[2]
    \/ a[1] = b[1] /\ a[2] = b[2] /\ a[3] < b[3]
    \/ a[1] = b[1] /\ a[2] = b[2] /\ a[3] = b[3] /\ a[4] < b[4]
    \/ a[1] = b[1] /\ a[2] = b[2] /\ a[3] = b[3] /\ a[4] = b[4] /\ StrLess(a[5], b[5])

\* sorted(items, key=sort_key): ascending by key, records with equal keys in
\* their order in items (the sort is stable)
Sorted(items, newKeys, u) ==
    LET Before(keys, i, j) ==
            KeyLess(keys[i], keys[j]) \/ (~KeyLess(keys[j], keys[i]) /\ i < j)
        Pos(keys, i) == Cardinality({j \in 1..Len(keys) : Before(keys, j, i)}) + 1
    IN  CHOOSE r \in
            {AsSeq([p \in 1..Len(its) |-> its[CHOOSE i \in 1..Len(its) : Pos(keys, i) = p]]) :
                its \in {items},
                keys \in {AsSeq([i \in 1..Len(items) |-> sort_key(items[i], newKeys, u)])}} :
            TRUE

\* a numbering that starts at 0 (enumerate without start=1)
NumberedFromZero(items) ==
    CHOOSE r \in {AsSeq([i \in 1..Len(its) |-> Put(its[i], "_idx", Num(i - 1))]) :
                      its \in {items}} : TRUE

\* it["_idx"] = i for i = 1..N
Numbered(items) ==
    CHOOSE r \in {AsSeq([i \in 1..Len(its) |-> Put(its[i], "_idx", Num(i))]) :
                      its \in {items}} : TRUE

\* a snapshot compare that forgets the snapshot
NewKeysIgnoringSnapshot(items, prev) == KeySet(items)

\* now_keys - prev_keys
NewKeys(items, prev) == KeySet(items) \ KeySet(prev.items)

\* the ranked list of one run: dedup, filters, snapshot compare, sort, numbering
RankedList(all, prev, u) ==
    CHOOSE r \in {Numbered(Sorted(now, NewKeys(now, prev), u)) :
                      now \in {Filtered(Dedup(all), u)}} : TRUE

\* the widgets of the sidebar that the run reads, at their defaults, with the
\* profile selection narrowed to R&D
DefaultUi ==
    [selected_profiles |-> <<P_RD>>, include_ho |-> FALSE, umkreis |-> 40,
     ho_umkreis |-> 100, ho_bonus |-> 8, only_focus |-> TRUE, hide_irrelevant |-> TRUE,
     min_score |-> 8, home_lat |-> DEFAULT_HOME_LAT, home_lon |-> DEFAULT_HOME_LON,
     near_km |-> 25, mid_km |-> 60]

\* the marker of one record that has coordinates
Marker(it, u) ==
    [idx     |-> GetD(it, "_idx", Str(<<>>)),
     lat     |-> extract_latlon_from_item(it)[1],
     lon     |-> extract_latlon_from_item(it)[2],
     title   |-> item_title(it),
     company |-> item_company(it),
     dist_km |-> distance_from_home_km(it, u.home_lat, u.home_lon),
     pin     |-> distance_bucket(distance_from_home_km(it, u.home_lat, u.home_lon),
                                 u.near_km, u.mid_km)]

\* the markers of the map: one per record with coordinates, in list order
Markers(items, u) ==
    CHOOSE r \in {AsSeq([k \in 1..Len(its) |-> Marker(its[k], u)]) :
                      its \in {SelectSeq(items, LAMBDA it :
                                  extract_latlon_from_item(it) # <<>>)}} : TRUE

\* The start of a run up to the profile check: the widgets hold u and the
\* keyword texts kws, the snapshot is loaded, then the pressed button (if any)
\* acts; without a profile the run stops (st.stop).
StartRun(u, kws, button) ==
    /\ pc = "idle"
    /\ ui' = u
    /\ delete_pressed' = (button = "delete")
    /\ kw_focus' = kws[1] /\ kw_lead' = kws[2] /\ kw_neg' = kws[3]
    /\ snap' = load_snapshot
    /\ save_snapshot_requested' = IF button = "save" THEN TRUE ELSE save_snapshot_requested
    /\ snapshot_file' = IF button = "delete" THEN NoFile ELSE snapshot_file
    /\ pc' = IF u.selected_profiles = <<>> THEN "done" ELSE "search"
    /\ calls' = <<>> /\ all_items' = <<>> /\ errs' = <<>>
    /\ items_dedup' = <<>> /\ items_now' = <<>> /\ new_keys' = {} /\ items_sorted' = <<>>
    /\ UNCHANGED <<companyVars, clock, arg, res>>

\* a search loop that leaves the loop at the first failing call
FetchCallAborting(http, maxItems) ==
    /\ pc = "search"
    /\ LET plan   == CallPlan(ui.selected_profiles, ui.include_ho)
           c      == plan[Len(calls) + 1]
           r      == fetch_search(http)
           bucket == IF c[2] = "vor Ort" THEN OnSiteBucket(ui) ELSE HomeofficeBucket(ui)
           tagged == Tagged(r[1], c[1], bucket)
       IN  /\ Len(calls) < Len(plan)
           /\ ~fetch_search_raises(http)
           /\ Len(all_items) + Len(r[1]) <= maxItems
           /\ errs' = IF r[2] # NoErr THEN Append(errs, <<c[1], c[2], r[2]>>) ELSE errs
           /\ all_items' = all_items \o tagged
           /\ calls' = Append(calls, [profile |-> c[1], bucket |-> c[2],
                                      items |-> tagged, err |-> r[2]])
           /\ pc' = IF Len(calls) + 1 = Len(plan) \/ r[2] # NoErr THEN "rank" ELSE "search"
    /\ UNCHANGED <<companyVars, sessionVars, snapshot_file, clock, ui, delete_pressed, snap,
                   items_dedup, items_now, new_keys, items_sorted, arg, res>>

\* One iteration step of the search loop: the next planned call gets the
\* outcome http; its error is collected, its records are tagged and appended.
FetchCall(http, maxItems) ==
    /\ pc = "search"
    /\ LET plan   == CallPlan(ui.selected_profiles, ui.include_ho)
           c      == plan[Len(calls) + 1]
           r      == fetch_search(http)
           bucket == IF c[2] = "vor Ort" THEN OnSiteBucket(ui) ELSE HomeofficeBucket(ui)
           tagged == Tagged(r[1], c[1], bucket)
       IN  /\ Len(calls) < Len(plan)
           /\ ~fetch_search_raises(http)
           /\ Len(all_items) + Len(r[1]) <= maxItems
           /\ errs' = IF r[2] # NoErr THEN Append(errs, <<c[1], c[2], r[2]>>) ELSE errs
           /\ all_items' = all_items \o tagged
           /\ calls' = Append(calls, [profile |-> c[1], bucket |-> c[2],
                                      items |-> tagged, err |-> r[2]])
           /\ pc' = IF Len(calls) + 1 = Len(plan) THEN "rank" ELSE "search"
    /\ UNCHANGED <<companyVars, sessionVars, snapshot_file, clock, ui, delete_pressed, snap,
                   items_dedup, items_now, new_keys, items_sorted, arg, res>>

\* The next planned call raises: the exception is caught nowhere in the
\* script, the run ends where it is.
FetchCallRaises(http) ==
    /\ pc = "search"
    /\ Len(calls) < Len(CallPlan(ui.selected_profiles, ui.include_ho))
    /\ fetch_search_raises(http)
    /\ pc' = "crashed"
    /\ UNCHANGED <<companyVars, sessionVars, snapshot_file, clock, ui, delete_pressed, snap,
                   calls, all_items, errs, items_dedup, items_now, new_keys, items_sorted, arg,
                   res>>

\* a ranking whose snapshot compare reads the snapshot file again
RankAgainstFile ==
    /\ pc = "rank"
    /\ \E dedup \in {Dedup(all_items)} :
       \E now \in {Filtered(dedup, ui)} :
       \E new \in {NewKeys(now, load_snapshot)} :
           /\ items_dedup' = dedup
           /\ items_now' = now
           /\ new_keys' = new
           /\ items_sorted' = Numbered(Sorted(now, new, ui))
    /\ pc' = "save"
    /\ UNCHANGED <<companyVars, sessionVars, snapshot_file, clock, ui, delete_pressed, snap,
                   calls, all_items, errs, arg, res>>

\* Dedup, filters, snapshot compare, sort and numbering.
Rank ==
    /\ pc = "rank"
    /\ \E dedup \in {Dedup(all_items)} :
       \E now \in {Filtered(dedup, ui)} :
       \E new \in {NewKeys(now, snap)} :
           /\ items_dedup' = dedup
           /\ items_now' = now
           /\ new_keys' = new
           /\ items_sorted' = Numbered(Sorted(now, new, ui))
    /\ pc' = "save"
    /\ UNCHANGED <<companyVars, sessionVars, snapshot_file, clock, ui, delete_pressed, snap,
                   calls, all_items, errs, arg, res>>

\* an end of the run whose save appends the ranked list to the stored items
FinishAppending ==
    /\ pc = "save"
    /\ IF save_snapshot_requested
       THEN /\ snapshot_file' =
                   save_snapshot((IF snapshot_file.exists THEN snapshot_file.items ELSE <<>>)
                                     \o items_sorted, clock)
            /\ save_snapshot_requested' = FALSE
       ELSE UNCHANGED <<snapshot_file, save_snapshot_requested>>
    /\ pc' = "done"
    /\ UNCHANGED <<companyVars, kw_focus, kw_lead, kw_neg, clock, ui, delete_pressed, snap,
                   calls, all_items, errs, items_dedup, items_now, new_keys, items_sorted, arg,
                   res>>

\* an end of the run that saves the ranked list whether requested or not
FinishSavingAlways ==
    /\ pc = "save"
    /\ snapshot_file' = save_snapshot(items_sorted, clock)
    /\ save_snapshot_requested' = FALSE
    /\ pc' = "done"
    /\ UNCHANGED <<companyVars, kw_focus, kw_lead, kw_neg, clock, ui, delete_pressed, snap,
                   calls, all_items, errs, items_dedup, items_now, new_keys, items_sorted, arg,
                   res>>

\* The pending save request, if any, is carried out; the run ends.
Finish ==
    /\ pc = "save"
    /\ IF save_snapshot_requested
       THEN /\ snapshot_file' = save_snapshot(items_sorted, clock)
            /\ save_snapshot_requested' = FALSE
       ELSE UNCHANGED <<snapshot_file, save_snapshot_requested>>
    /\ pc' = "done"
    /\ UNCHANGED <<companyVars, kw_focus, kw_lead, kw_neg, clock, ui, delete_pressed, snap,
                   calls, all_items, errs, items_dedup, items_now, new_keys, items_sorted, arg,
                   res>>

\* ------------------------------------------------------------------------
\* The inputs of the model
\* ------------------------------------------------------------------------
HalleCoords == Dict([lat |-> Num(514825), lon |-> Num(119706)])
LeipzigCoords == Dict([lat |-> Num(513397), lon |-> Num(123731)])

\* high-priority employer, coordinates, reference number in refnr
JobA ==
    [refnr |-> Str(<<"1","2","3">>),
     titel |-> Str(<<"T","e","a","m","l","e","i","t","e","r"," ","D","S","C","-","L","a","b","o","r">>),
     arbeitgeber |-> Str(<<"F","r","a","u","n","h","o","f","e","r"," ","I","M","W","S">>),
     arbeitsort |-> Dict([ort |-> Str(<<"H","a","l","l","e">>), koordinaten |-> HalleCoords])]

\* ordinary employer, coordinates
JobB ==
    [refnr |-> Str(<<"2">>),
     titel |-> Str(<<"L","a","b","o","r","l","e","i","t","e","r"," ","A","n","a","l","y","t","i","k">>),
     arbeitgeber |-> Str(<<"B","M","W"," ","A","G">>),
     arbeitsort |-> Dict([ort |-> Str(<<"L","e","i","p","z","i","g">>), koordinaten |-> LeipzigCoords])]

\* high-priority employer, no reference number, no coordinates, no keyword hit
JobC ==
    [titel |-> Str(<<"S","a","c","h","b","e","a","r","b","e","i","t","e","r">>),
     arbeitgeber |-> Str(<<"D","B","F","Z">>),
     arbeitsort |-> Str(<<"L","e","i","p","z","i","g">>)]

\* ordinary employer at the same place as JobB, coordinates at top level, the
\* same score as JobB
JobE ==
    [hashID |-> Str(<<"5">>),
     beruf |-> Str(<<"T","e","a","m","l","e","i","t","e","r"," ","A","n","a","l","y","t","i","k">>),
     arbeitgeberName |-> Str(<<"F","o","o","b","a","r"," ","G","m","b","H">>),
     wo |-> Str(<<"L","e","i","p","z","i","g">>),
     koordinaten |-> LeipzigCoords]

Catalogue == {JobA, JobB, JobC, JobE}

\* the longest list of records one run collects
MaxItems == 3

SeqsUpTo(S, n) == UNION {[1..k -> S] : k \in 0..n}

\* a 200 response whose JSON body lists the records items
JsonOk(items) ==
    [kind |-> "response", status |-> 200, json |-> TRUE,
     data |-> Dict([stellenangebote |-> List(items)])]

HttpFailures ==
    {[kind |-> "exception"],
     [kind |-> "response", status |-> 500, json |-> FALSE],
     [kind |-> "response", status |-> 200, json |-> FALSE]}

\* a 200 response whose JSON body is a list
HttpJsonList == [kind |-> "response", status |-> 200, json |-> TRUE, data |-> List(<<>>)]

\* the outcomes of a call that returns at most n records
HttpOutcomes(n) == {JsonOk(r) : r \in SeqsUpTo(Catalogue, n)} \cup HttpFailures

FocusText == <<"d","s","c",","," ","a","n","a","l","y","t","i","k">>
LeadText == <<"t","e","a","m","l","e","i","t","e","r","\n","l","a","b","o","r","l","e","i","t","e","r">>
NegText == <<"a","s","s","i","s","t","e","n","z">>

UiChoices ==
    {DefaultUi,
     [DefaultUi EXCEPT !.include_ho = TRUE],
     [DefaultUi EXCEPT !.only_focus = FALSE, !.hide_irrelevant = FALSE],
     [DefaultUi EXCEPT !.selected_profiles = <<P_PM, P_RD>>],
     [DefaultUi EXCEPT !.selected_profiles = <<>>]}

\* a snapshot an earlier run saved: the ranked list of an on-site response
SnapshotOf(items) ==
    save_snapshot(RankedList(Tagged(items, P_RD, OnSiteBucket(DefaultUi)),
                             [timestamp |-> NoneV, items |-> <<>>], DefaultUi), 0)

NoRunYet ==
    /\ ui = DefaultUi /\ delete_pressed = FALSE
    /\ snap = [timestamp |-> NoneV, items |-> <<>>]
    /\ calls = <<>> /\ all_items = <<>> /\ errs = <<>>
    /\ items_dedup = <<>> /\ items_now = <<>> /\ new_keys = {} /\ items_sorted = <<>>

InitRun == pc = "idle" /\ NoRunYet

Init ==
    /\ CompanyAtRest
    /\ kw_focus = FocusText /\ kw_lead = LeadText /\ kw_neg = NegText
    /\ save_snapshot_requested \in BOOLEAN
    /\ snapshot_file \in {NoFile, SnapshotOf(<<JobA, JobB>>)}
    /\ clock = 1
    /\ InitRun
    /\ arg = <<>> /\ res = <<>>

Next ==
    \/ \E u \in UiChoices, b \in {"none", "save", "delete"} :
            StartRun(u, <<kw_focus, kw_lead, kw_neg>>, b)
    \/ \E h \in HttpOutcomes(MaxItems - Len(all_items)) : FetchCall(h, MaxItems)
    \/ FetchCallRaises(HttpJsonList)
    \/ Rank
    \/ Finish

\* one script run, from any state earlier runs can leave behind
Spec == Init /\ [][Next]_vars

\* ------------------------------------------------------------------------
\* Properties of one script run
\* ------------------------------------------------------------------------
\* the run has ranked its records
Ranked == pc \in {"save", "done"} /\ ui.selected_profiles # <<>>

\* the identity keys of the concatenated raw records, in list order
RawKeys == AsSeq([i \in 1..Len(all_items) |-> item_key(all_items[i])])

\* the positions of ks that hold the first occurrence of their key
FirstOccurrences(ks) == {i \in 1..Len(ks) : \A j \in 1..(i - 1) : ks[j] # ks[i]}

\* C1: after deduplication of a list of raw records in which K distinct
\* identity keys occur, the deduplicated list has exactly K records; its p-th
\* record is the raw record at the p-th position that holds a first occurrence
\* of a key (so each record is the first-occurring one of its key, and the
\* records keep their first-seen order), carrying its key in _key.
C1_DedupKeepsFirstOccurrences ==
    Ranked =>
        \E ks \in {RawKeys} :
            /\ Len(items_dedup) = Cardinality(Range(ks))
            /\ \A p \in 1..Len(items_dedup) :
                  \E i \in FirstOccurrences(ks) :
                      /\ Cardinality({j \in FirstOccurrences(ks) : j <= i}) = p
                      /\ items_dedup[p] = Put(all_items[i], "_key", Str(ks[i]))

\* three raw records, the first and the last being different records of one
\* key with another record between them, deduplicated to the first two
C1_Witness ==
    /\ pc = "save"
    /\ Len(all_items) = 3
    /\ item_key(all_items[1]) = item_key(all_items[3])
    /\ item_key(all_items[1]) # item_key(all_items[2])
    /\ all_items[1] # all_items[3]
    /\ Len(items_dedup) = 2
    /\ items_dedup[1] = Put(all_items[1], "_key", Str(item_key(all_items[1])))

\* the identity keys of a list of records
IdentityKeys(items) == {item_key(items[i]) : i \in 1..Len(items)}

\* C2: new_keys is exactly the set of identity keys of the current filtered
\* records that are absent from the keys of the loaded snapshot's items; it is
\* empty when the current keys are a subset of the snapshot's, and the whole
\* current key set when the snapshot has no items.
C2_NewKeysAreCurrentMinusSnapshot ==
    Ranked =>
        \E now \in {IdentityKeys(items_now)}, prev \in {IdentityKeys(snap.items)} :
            /\ new_keys = {k \in now : k \notin prev}
            /\ now \subseteq prev => new_keys = {}
            /\ snap.items = <<>> => new_keys = now

\* the snapshot holds the keys ba:123 and ba:2, the current records the keys
\* ba:2 and ba:5, and new_keys is {ba:5}
C2_Witness ==
    /\ pc = "save"
    /\ IdentityKeys(snap.items) = {<<"b","a",":","1","2","3">>, <<"b","a",":","2">>}
    /\ IdentityKeys(items_now) = {<<"b","a",":","2">>, <<"b","a",":","5">>}
    /\ new_keys = {<<"b","a",":","5">>}

\* the record lacks coordinates: its distance from home is none
LacksCoordinates(it) == extract_latlon_from_item(it) = <<>>

\* the employer is a high-priority target organisation
HighPriorityEmployer(it) ==
    \E org \in {match_target_org(item_company(it))} :
        org # <<>> /\ "priority" \in DOMAIN org /\ org.priority = "high"

\* the 5-tuple of the ranking order: high priority first, distance ascending
\* with 999999 for a missing distance, new before not new, score descending,
\* lowercased title ascending
RankTuple(it) ==
    << IF HighPriorityEmployer(it) THEN 0 ELSE 1,
       IF LacksCoordinates(it) THEN 999999
       ELSE distance_from_home_km(it, ui.home_lat, ui.home_lon),
       IF item_key(it) \in new_keys THEN 0 ELSE 1,
       0 - relevance_score(it, ui.ho_bonus),
       Lower(item_title(it)) >>

\* a <= b, lexicographically, on rank tuples
TupleLeq(a, b) ==
    \/ a[1] < b[1]
    \/ a[1] = b[1] /\ a[2] < b[2]
    \/ a[1] = b[1] /\ a[2] = b[2] /\ a[3] < b[3]
    \/ a[1] = b[1] /\ a[2] = b[2] /\ a[3] = b[3] /\ a[4] < b[4]
    \/ a[1] = b[1] /\ a[2] = b[2] /\ a[3] = b[3] /\ a[4] = b[4]
       /\ (a[5] = b[5] \/ StrLess(a[5], b[5]))

\* C3: the final list holds the filtered records, each once, numbered 1..N, and
\* for every adjacent pair the earlier record's 5-tuple (priority, distance or
\* 999999, newness, negated score, lowercased title) is less than or equal to
\* the later one's.
C3_FinalListIsSortedByRankTuple ==
    Ranked =>
        \E ts \in {AsSeq([p \in 1..Len(items_sorted) |-> RankTuple(items_sorted[p])])} :
            /\ Len(items_sorted) = Len(items_now)
            /\ \A i \in 1..Len(items_now) :
                  \E p \in 1..Len(items_sorted) :
                      items_sorted[p] = Put(items_now[i], "_idx", Num(p))
            /\ \A p \in 1..(Len(ts) - 1) : TupleLeq(ts[p], ts[p + 1])

\* three records were ranked and none kept the place it had before the sort
C3_Witness ==
    /\ pc = "save"
    /\ Len(items_sorted) = 3
    /\ \A p \in 1..3 : items_sorted[p] # Put(items_now[p], "_idx", Num(p))

\* C4 as stated: in the final list every record lacking coordinates comes
\* after every record that has coordinates.
C4_NoCoordinatesAfterAllOthers ==
    Ranked =>
        \A p \in 1..Len(items_sorted), q \in 1..Len(items_sorted) :
            LacksCoordinates(items_sorted[p]) /\ ~LacksCoordinates(items_sorted[q]) => q < p

\* C4 amended: in the final list, among the records of one priority class
\* (employer a high-priority target organisation, or not), every record lacking
\* coordinates comes after every record that has coordinates.
C4_NoCoordinatesLastWithinPriorityClass ==
    Ranked =>
        \E hp \in {AsSeq([p \in 1..Len(items_sorted) |->
                             HighPriorityEmployer(items_sorted[p])])} :
            \A p \in 1..Len(items_sorted), q \in 1..Len(items_sorted) :
                /\ hp[p] = hp[q]
                /\ LacksCoordinates(items_sorted[p])
                /\ ~LacksCoordinates(items_sorted[q])
                => q < p

\* a record without coordinates was collected before a record of its priority
\* class that has coordinates, and the final list has them the other way round
C4_Witness ==
    /\ pc = "save"
    /\ Len(items_now) = 2 /\ Len(items_sorted) = 2
    /\ LacksCoordinates(items_now[1]) /\ ~LacksCoordinates(items_now[2])
    /\ HighPriorityEmployer(items_now[1]) = HighPriorityEmployer(items_now[2])
    /\ items_sorted[1] = Put(items_now[2], "_idx", Num(1))
    /\ items_sorted[2] = Put(items_now[1], "_idx", Num(2))

\* the records of the calls in the order order, concatenated
RECURSIVE ConcatCalls(_, _)
ConcatCalls(cs, order) ==
    IF order = <<>> THEN <<>>
    ELSE cs[Head(order)].items \o ConcatCalls(cs, Tail(order))

\* the orders in which n call results can be concatenated
Orders(n) == {o \in [1..n -> 1..n] : \A i \in 1..n : \E j \in 1..n : o[j] = i}

\* C7 as stated: the set of identity keys of the deduplicated and filtered
\* list is the same whatever the order in which the results of the calls are
\* concatenated before deduplication.
C7_CallOrderDoesNotChangeSurvivors ==
    Ranked =>
        \A o \in Orders(Len(calls)) :
            IdentityKeys(Filtered(Dedup(ConcatCalls(calls, o)), ui))
                = IdentityKeys(items_now)

\* the two call results, concatenated homeoffice first, leave a record that the
\* run, which concatenated them on-site first, filtered out
C7_FailingRun ==
    /\ pc = "save"
    /\ Len(calls) = 2
    /\ calls[1].items # <<>>
    /\ items_now = <<>>
    /\ IdentityKeys(Filtered(Dedup(calls[2].items \o calls[1].items), ui)) # {}

\* the search loop of the run is over
Searched == pc \in {"rank", "save", "done"} /\ ui.selected_profiles # <<>>

\* the calls of the run that failed, in call order
FailedCalls == SelectSeq(calls, LAMBDA c : c.err # NoErr)

Located == {i \in 1..Len(items_sorted) : ~LacksCoordinates(items_sorted[i])}

\* C15: after ranking, the record at position i of the final list has display
\* index i, for i = 1..N; the map has one marker per record with coordinates,
\* in list order, and each marker carries the list position, the title and the
\* coordinates of the record it was built from.
C15_DisplayIndexIsListPosition ==
    Ranked =>
        /\ \A i \in 1..Len(items_sorted) : Get(items_sorted[i], "_idx") = Num(i)
        /\ \E ms \in {Markers(items_sorted, ui)}, at \in {Located} :
              /\ Len(ms) = Cardinality(at)
              /\ \A k \in 1..Len(ms) :
                    \E i \in at :
                        /\ Cardinality({j \in at : j <= i}) = k
                        /\ ms[k].idx = Num(i)
                        /\ ms[k].title = item_title(items_sorted[i])
                        /\ <<ms[k].lat, ms[k].lon>> = extract_latlon_from_item(items_sorted[i])

\* three ranked records of which the first has no coordinates: the two
\* markers carry the display indices 2 and 3
C15_Witness ==
    /\ pc = "save"
    /\ Len(items_sorted) = 3
    /\ Located = {2, 3}
    /\ Markers(items_sorted, ui)[1].idx = Num(2)
    /\ Markers(items_sorted, ui)[2].idx = Num(3)

\* the step of the run that carries out a pending save
SaveExecutes == pc = "save" /\ save_snapshot_requested /\ pc' = "done"

\* the items the snapshot file holds
StoredItems(file) == IF file.exists THEN file.items ELSE <<>>

\* C11: the step that executes a save leaves a snapshot file whose items are
\* exactly the ranked list of the run, in ranked order and each with its
\* identity key in _key, whose timestamp is the time of the save, and in which
\* no item of the file as it was before the save remains unless its key is also
\* in the ranked list; the request is cleared.
C11_SaveReplacesSnapshot ==
    [][SaveExecutes =>
          /\ snapshot_file'.exists
          /\ snapshot_file'.items = items_sorted
          /\ \A p \in 1..Len(items_sorted) :
                Get(snapshot_file'.items[p], "_key") = Str(item_key(items_sorted[p]))
          /\ snapshot_file'.timestamp = Num(clock)
          /\ \A i \in 1..Len(StoredItems(snapshot_file)) :
                KeyOf(StoredItems(snapshot_file)[i]) \in KeySet(snapshot_file'.items)
                    => KeyOf(StoredItems(snapshot_file)[i]) \in IdentityKeys(items_sorted)
          /\ Len(snapshot_file'.items) = Len(items_sorted)
          /\ ~save_snapshot_requested']_vars

\* a save was executed over a stored snapshot of two items: the file now holds
\* the ranked list of the run, which is not empty and lacks one of the two
C11_Witness ==
    /\ pc = "done"
    /\ Len(snap.items) = 2
    /\ items_sorted # <<>>
    /\ snapshot_file.exists
    /\ snapshot_file.timestamp = Num(clock)
    /\ snapshot_file.items = items_sorted
    /\ \E i \in 1..2 : KeyOf(snap.items[i]) \notin IdentityKeys(items_sorted)
    /\ \E i \in 1..2 : KeyOf(snap.items[i]) \in IdentityKeys(items_sorted)

\* the step of a run that loads the snapshot while no snapshot file exists
LoadsWithoutFile == pc = "idle" /\ pc' # "idle" /\ ~snapshot_file.exists

\* the step that compares the filtered records with the snapshot
Compares == pc = "rank" /\ pc' = "save"

\* C20: loading the snapshot when no snapshot file exists gives a snapshot
\* with timestamp None and an empty item list, and the run goes on; every key
\* of the run's filtered records is then new.
C20_NoFileLoadsEmptySnapshot ==
    [][/\ LoadsWithoutFile =>
            /\ snap' = [timestamp |-> NoneV, items |-> <<>>]
            /\ pc' \in {"search", "done"}
       /\ (Compares /\ snap = [timestamp |-> NoneV, items |-> <<>>]) =>
            new_keys' = KeySet(items_now')]_vars

\* a run that started without a snapshot file has ranked two records, both new
C20_Witness ==
    /\ pc = "save"
    /\ ~snapshot_file.exists
    /\ snap = [timestamp |-> NoneV, items |-> <<>>]
    /\ Len(items_now) = 2
    /\ Cardinality(new_keys) = 2

\* ------------------------------------------------------------------------
\* fetch_search applied to one outcome of requests.get
\* ------------------------------------------------------------------------
FetchLists == SeqsUpTo({JobA, JobB}, 2)

\* the values r.json() can return
FetchBodies ==
    {Dict([stellenangebote |-> List(l)]) : l \in FetchLists}
    \cup {Dict([_embedded |-> Dict([jobs |-> List(l)])]) : l \in FetchLists}
    \cup {Dict([jobs |-> List(l)]) : l \in FetchLists}
    \cup {Dict([stellenangebote |-> NoneV, _embedded |-> Str(<<"x">>), jobs |-> List(l)]) :
              l \in FetchLists}
    \cup {Dict(<<>>), Dict([maxErgebnisse |-> Num(0)]),
          Dict([stellenangebote |-> Str(<<"x">>), _embedded |-> Dict([jobs |-> NoneV])])}
    \cup {List(l) : l \in FetchLists}
    \cup {NoneV, Str(<<"o","k">>), Num(0), Num(7)}

\* the outcomes of requests.get: an exception, or a response with a status
\* code and a body that r.json() parses or not
FetchResponses ==
    {[kind |-> "exception"]}
    \cup {[kind |-> "response", status |-> s, json |-> FALSE] : s \in {200, 204, 403, 404, 500}}
    \cup {[kind |-> "response", status |-> s, json |-> TRUE, data |-> b] :
              s \in {200, 404}, b \in FetchBodies}

InitFetch ==
    /\ CompanyAtRest
    /\ kw_focus = FocusText /\ kw_lead = LeadText /\ kw_neg = NegText
    /\ save_snapshot_requested = FALSE /\ snapshot_file = NoFile /\ clock = 1
    /\ NoRunYet
    /\ pc = "fetch"
    /\ arg \in FetchResponses
    /\ res = <<>>

\* fetch_search on the outcome arg: it raises, or returns (items, error)
ApplyFetch ==
    /\ pc = "fetch"
    /\ res' = IF fetch_search_raises(arg)
              THEN [raised |-> TRUE]
              ELSE [raised |-> FALSE, items |-> fetch_search(arg)[1],
                    err |-> fetch_search(arg)[2]]
    /\ pc' = "fetched"
    /\ UNCHANGED <<companyVars, sessionVars, snapshot_file, clock, ui, delete_pressed, snap,
                   calls, all_items, errs, items_dedup, items_now, new_keys, items_sorted, arg>>

NextFetch == ApplyFetch

SpecFetch == InitFetch /\ [][NextFetch]_vars

\* the three failures: transport exception, status other than 200, body of a
\* 200 response that is no valid JSON
IsFailure(http) ==
    \/ http.kind = "exception"
    \/ http.kind = "response" /\ http.status # 200
    \/ http.kind = "response" /\ http.status = 200 /\ ~http.json

\* C13 as stated: fetch_search never raises; it returns records with no error,
\* or no records with a non-empty error message; and each of the three
\* failures gives no records together with a non-empty error message.
C13_ReturnsRecordsOrErrorNeverRaises ==
    pc = "fetched" =>
        /\ ~res.raised
        /\ \/ res.err = NoErr
           \/ res.items = <<>> /\ res.err # ""
        /\ IsFailure(arg) => res.items = <<>> /\ res.err \notin {NoErr, ""}

\* the 200 response whose body is the JSON text [] : fetch_search raises
C13_FailingInput ==
    /\ pc = "fetched"
    /\ arg = [kind |-> "response", status |-> 200, json |-> TRUE, data |-> List(<<>>)]
    /\ res.raised

\* ------------------------------------------------------------------------
\* The record accessors applied to one raw record
\* ------------------------------------------------------------------------
\* the values a field of a raw record can hold
FieldValues ==
    {NoneV, Str(<<>>), Str(<<" ">>), Str(<<" ","H","a","l","l","e"," ">>), Str(<<"4","2">>),
     Num(0), Num(5), List(<<>>), List(<<Str(<<"x">>)>>), Dict(<<>>),
     Dict([ort |-> Str(<<"H","a","l","l","e">>), region |-> NoneV,
           land |-> Str(<<" ","D","E">>)]),
     Dict([ort |-> Num(5)]),
     Dict([ort |-> Str(<<"H","a","l","l","e">>), land |-> List(<<Str(<<"D","E">>)>>)]),
     Dict([ort |-> Num(0), region |-> List(<<>>), land |-> Dict(<<>>)]),
     Dict([region |-> Dict([name |-> Str(<<"S","N">>)])]),
     Dict([koordinaten |-> HalleCoords]),
     Dict([koordinaten |-> Dict([lat |-> Str(<<"5","1">>), lon |-> Str(<<"1","2">>)])]),
     Dict([koordinaten |-> Dict([lat |-> Str(<<"x">>), lon |-> Num(12)])]),
     Dict([koordinaten |-> Dict([lat |-> List(<<>>), lon |-> Dict(<<>>)])]),
     Dict([koordinaten |-> List(<<Num(51), Num(12)>>)]),
     Dict([lat |-> Num(514825), lon |-> Num(119706)]),
     Dict([lat |-> NoneV, lon |-> Num(119706)]),
     Dict([lat |-> Dict(<<>>), lon |-> List(<<>>)]),
     Dict([details |-> Dict([href |-> Str(<<"/","x">>)])]),
     Dict([details |-> Str(<<"x">>),
           jobdetails |-> Dict([href |-> Str(<<"h","t","t","p",":","/","/","x">>)])]),
     Dict([details |-> Dict([href |-> Num(5)]), jobdetails |-> List(<<>>)])}

\* the fields the accessors read
AccessFields ==
    {"refnr", "hashID", "titel", "arbeitgeber", "arbeitsort", "ort", "wo", "koordinaten",
     "_links", "kurzbeschreibung", "kurztext"}

\* raw records: no field, or one field holding any of the values
AccessRecords == {<<>>} \cup {f :> v : f \in AccessFields, v \in FieldValues}

InitAccess ==
    /\ CompanyAtRest
    /\ kw_focus = FocusText /\ kw_lead = LeadText /\ kw_neg = NegText
    /\ save_snapshot_requested = FALSE /\ snapshot_file = NoFile /\ clock = 1
    /\ NoRunYet
    /\ pc = "access"
    /\ arg \in AccessRecords
    /\ res = <<>>

\* the outcome of a call: it returned v, or it raised
Returned(v) == [raised |-> FALSE, value |-> v]
RaisedError == [raised |-> TRUE]

\* every accessor on the record arg
ApplyAccessors ==
    /\ pc = "access"
    /\ res' = [item_id_raw |-> Returned(item_id_raw(arg)),
               item_title |-> Returned(item_title(arg)),
               item_company |-> Returned(item_company(arg)),
               pretty_location |-> IF pretty_location_raises(arg) THEN RaisedError
                                   ELSE Returned(pretty_location(arg)),
               extract_latlon_from_item |-> Returned(extract_latlon_from_item(arg)),
               details_url_api |-> IF details_url_api_raises(arg) THEN RaisedError
                                   ELSE Returned(details_url_api(arg)),
               short_field |-> Returned(short_field(arg, <<"kurzbeschreibung",
                                                           "beschreibungKurz", "kurztext">>))]
    /\ pc' = "accessed"
    /\ UNCHANGED <<companyVars, sessionVars, snapshot_file, clock, ui, delete_pressed, snap,
                   calls, all_items, errs, items_dedup, items_now, new_keys, items_sorted, arg>>

NextAccess == ApplyAccessors

SpecAccess == InitAccess /\ [][NextAccess]_vars

\* C14 as stated: on every raw record, whatever its fields hold, each of
\* item_id_raw, item_title, item_company, pretty_location,
\* extract_latlon_from_item, details_url_api and short_field returns a value and
\* does not raise.
C14_AccessorsNeverRaise ==
    pc = "accessed" => \A a \in DOMAIN res : ~res[a].raised

\* the record whose structured location has the number 5 as ort:
\* pretty_location raises
C14_FailingInput ==
    /\ pc = "accessed"
    /\ arg = [arbeitsort |-> Dict([ort |-> Num(5)])]
    /\ res.pretty_location.raised
    /\ ~res.details_url_api.raised

\* ------------------------------------------------------------------------
\* The filter step and the ranking applied to one list of records
\* ------------------------------------------------------------------------
\* irrelevant by its title, score 26
JobOffice ==
    [refnr |-> Str(<<"7">>),
     titel |-> Str(<<"T","e","a","m","l","e","i","t","e","r"," ","D","S","C"," ","A","n","a","l","y","t","i","k"," ","S","e","k","r","e","t","a","r","i","a","t">>),
     arbeitgeber |-> Str(<<"B","M","W"," ","A","G">>)]

\* irrelevant by its short description, score -12
JobAssistant ==
    [refnr |-> Str(<<"8">>),
     titel |-> Str(<<"M","i","t","a","r","b","e","i","t","e","r">>),
     kurzbeschreibung |-> Str(<<"A","s","s","i","s","t","e","n","z"," ","d","e","r"," ","L","e","i","t","u","n","g">>),
     arbeitgeber |-> Str(<<"B","M","W"," ","A","G">>)]

\* not irrelevant: JobA (score 16) and JobC (score 0)
FilterCatalogue == {JobA, JobC, JobOffice, JobAssistant}

\* the longest list the filter step is applied to
MaxFiltered == 3

FilterUis ==
    {[DefaultUi EXCEPT !.hide_irrelevant = h, !.only_focus = f, !.min_score = m] :
        h \in BOOLEAN, f \in BOOLEAN, m \in {0, 8, 20}}

InitFilter ==
    /\ CompanyAtRest
    /\ kw_focus = FocusText /\ kw_lead = LeadText /\ kw_neg = NegText
    /\ save_snapshot_requested = FALSE /\ snapshot_file = NoFile /\ clock = 1
    /\ ui \in FilterUis /\ delete_pressed = FALSE
    /\ snap = [timestamp |-> NoneV, items |-> <<>>]
    /\ calls = <<>> /\ all_items = <<>> /\ errs = <<>>
    /\ items_dedup = <<>> /\ items_now = <<>> /\ new_keys = {} /\ items_sorted = <<>>
    /\ pc = "filter"
    /\ arg \in SeqsUpTo(FilterCatalogue, MaxFiltered)
    /\ res = <<>>

\* the records of arg, as one on-site call returned them, through dedup,
\* filters, snapshot compare, sort and numbering
ApplyFilter ==
    /\ pc = "filter"
    /\ \E all \in {Tagged(arg, P_RD, OnSiteBucket(ui))} :
          res' = [dedup |-> Dedup(all), final |-> RankedList(all, snap, ui)]
    /\ pc' = "filtered"
    /\ UNCHANGED <<companyVars, sessionVars, snapshot_file, clock, ui, delete_pressed, snap,
                   calls, all_items, errs, items_dedup, items_now, new_keys, items_sorted, arg>>

NextFilter == ApplyFilter

SpecFilter == InitFilter /\ [][NextFilter]_vars

\* title plus short description, lowercased, contains a hard-coded term
ProbablyIrrelevant(it) ==
    \E text \in {Lower(item_title(it) \o <<" ">>
                        \o PyStr(GetD(it, "kurzbeschreibung", Str(<<>>))))} :
        \E i \in 1..Len(HardTerms) : Contains(text, HardTerms[i])

\* the record passes the filters that are switched on
PassesFilters(it) ==
    /\ ui.hide_irrelevant => ~ProbablyIrrelevant(it)
    /\ ui.only_focus => relevance_score(it, ui.ho_bonus) >= ui.min_score

\* C16: with the hide-irrelevant toggle on, no record of the final list is
\* probably-irrelevant; with the only-focus toggle on, every record of the final
\* list has a relevance score of at least the minimum score; and the final list
\* holds exactly the deduplicated records that pass the filters switched on, so
\* a toggle that is off removes nothing, and a probably-irrelevant record is
\* removed whatever its score.
C16_TogglesSwitchTheirOwnFilter ==
    pc = "filtered" =>
        /\ ui.hide_irrelevant =>
              \A p \in 1..Len(res.final) : ~ProbablyIrrelevant(res.final[p])
        /\ ui.only_focus =>
              \A p \in 1..Len(res.final) :
                  relevance_score(res.final[p], ui.ho_bonus) >= ui.min_score
        /\ IdentityKeys(res.final)
              = {item_key(res.dedup[i]) :
                    i \in {j \in 1..Len(res.dedup) : PassesFilters(res.dedup[j])}}
        /\ Len(res.final) = Cardinality(IdentityKeys(res.final))

\* only the score filter is on: the irrelevant record with score 26 stays, the
\* records with the scores 0 and -12 are removed
C16_Witness ==
    /\ pc = "filtered"
    /\ ~ui.hide_irrelevant /\ ui.only_focus /\ ui.min_score = 8
    /\ arg = <<JobAssistant, JobOffice, JobC>>
    /\ Len(res.final) = 1
    /\ item_key(res.final[1]) = <<"b","a",":","7">>
    /\ relevance_score(res.final[1], ui.ho_bonus) = 26

\* ------------------------------------------------------------------------
\* item_key applied to two records
\* ------------------------------------------------------------------------
RefFields == <<"refnr", "refNr", "hashId", "hashID">>

\* what a reference field holds in the inputs: nothing, None, the empty text,
\* a blank, the number 123, the number 123 as an integer, 123 with blanks
\* around it, another number
RefHolds(h) ==
    CASE h = "none"   -> NoneV
      [] h = "empty"  -> Str(<<>>)
      [] h = "blank"  -> Str(<<" ">>)
      [] h = "n123"   -> Str(<<"1","2","3">>)
      [] h = "int123" -> Num(123)
      [] h = "padded" -> Str(<<" ","1","2","3"," ">>)
      [] h = "n7"     -> Str(<<"7">>)

\* the record with the title title whose reference fields hold what f says
RefRecord(f, title) ==
    [k \in {RefFields[i] : i \in {j \in 1..4 : f[j] # "absent"}} \cup {"titel"} |->
        IF k = "titel" THEN Str(title)
        ELSE RefHolds(f[CHOOSE i \in 1..4 : RefFields[i] = k])]

TitleMixed == <<"T","e","a","m","l","e","i","t","e","r">>
TitleCaps == <<"T","E","A","M","L","E","I","T","E","R">>

\* first records: every way to leave a reference field out, blank or at 123,
\* and each other shape of value alone in a field
FirstRecords ==
    {RefRecord(f, TitleMixed) : f \in [1..4 -> {"absent", "blank", "n123"}]}
    \cup {RefRecord([j \in 1..4 |-> IF j = i THEN h ELSE "absent"], TitleMixed) :
             i \in 1..4, h \in {"none", "empty", "int123", "padded", "n7"}}
    \cup {RefRecord([j \in 1..4 |-> IF j = 1 THEN h ELSE IF j = 3 THEN "n123" ELSE "absent"],
                    TitleMixed) : h \in {"none", "empty", "n7"}}

\* second records: the number 123 alone in one field, the title in capitals
SecondRecords ==
    {RefRecord([j \in 1..4 |-> IF j = i THEN "n123" ELSE "absent"], TitleCaps) : i \in 1..4}

ContentTitles ==
    {<<"C","h","e","m","i","k","e","r">>, <<" ","C","h","e","m","i","k","e","r">>,
     <<"C","H","E","M","I","K","E","R">>, <<"P","h","y","s","i","k","e","r">>}
ContentCompanies ==
    {<<"A","c","m","e">>, <<"A","C","M","E">>, <<"B","e","t","a">>}
ContentLocations ==
    {Str(<<"L","e","i","p","z","i","g">>), Str(<<"L","e","i","p","z","i","g"," ">>),
     Str(<<"L","E","I","P","Z","I","G">>), Str(<<"H","a","l","l","e">>),
     Dict([ort |-> Str(<<"L","e","i","p","z","i","g">>)])}

\* records without any reference field
ContentRecords ==
    {[titel |-> Str(t), arbeitgeber |-> Str(c), arbeitsort |-> l] :
        t \in ContentTitles, c \in ContentCompanies, l \in ContentLocations}

KeyInputs == (FirstRecords \X SecondRecords) \cup (ContentRecords \X ContentRecords)

InitKey ==
    /\ CompanyAtRest
    /\ kw_focus = FocusText /\ kw_lead = LeadText /\ kw_neg = NegText
    /\ save_snapshot_requested = FALSE /\ snapshot_file = NoFile /\ clock = 1
    /\ NoRunYet
    /\ pc = "key"
    /\ arg \in KeyInputs
    /\ res = <<>>

\* item_key of both records, and the dedup loop over the two
ApplyKey ==
    /\ pc = "key"
    /\ res' = [keys |-> <<item_key(arg[1]), item_key(arg[2])>>,
               dedup |-> Dedup(<<arg[1], arg[2]>>)]
    /\ pc' = "keyed"
    /\ UNCHANGED <<companyVars, sessionVars, snapshot_file, clock, ui, delete_pressed, snap,
                   calls, all_items, errs, items_dedup, items_now, new_keys, items_sorted, arg>>

NextKey == ApplyKey

SpecKey == InitKey /\ [][NextKey]_vars

\* the non-empty reference numbers a record carries in its reference fields
RefNumbers(it) ==
    {Strip(PyStr(it[RefFields[i]])) :
        i \in {j \in 1..4 : RefFields[j] \in DOMAIN it /\ it[RefFields[j]].t # "none"}}
    \ {<<>>}

\* C5 as stated: two records that carry the same non-empty reference number,
\* in whichever of refnr, refNr, hashId, hashID, get the same identity key,
\* "ba:" followed by the number.
C5_SameNumberSameKey ==
    pc = "keyed" =>
        \A n \in RefNumbers(arg[1]) :
            RefNumbers(arg[1]) = {n} /\ RefNumbers(arg[2]) = {n}
            => /\ res.keys[1] = <<"b","a",":">> \o n
               /\ res.keys[2] = <<"b","a",":">> \o n

\* the first record carries 123 in hashId behind a blank refnr and gets a
\* content-hash key; the second carries 123 in refnr and gets ba:123
C5_FailingInput ==
    /\ pc = "keyed"
    /\ arg[1] = [refnr |-> Str(<<" ">>), hashId |-> Str(<<"1","2","3">>),
                 titel |-> Str(TitleMixed)]
    /\ arg[2] = [refnr |-> Str(<<"1","2","3">>), titel |-> Str(TitleCaps)]
    /\ SubSeq(res.keys[1], 1, 3) = <<"h","x",":">>
    /\ res.keys[2] = <<"b","a",":","1","2","3">>
    /\ Len(res.dedup) = 2

\* the record has no reference number
NoReference(it) == RefNumbers(it) = {}

\* the fields of two records that differ after lowercasing
DifferingFields(a, b) ==
    {f \in {"title", "company", "location"} :
        CASE f = "title"    -> Lower(item_title(a)) # Lower(item_title(b))
          [] f = "company"  -> Lower(item_company(a)) # Lower(item_company(b))
          [] f = "location" -> Lower(pretty_location(a)) # Lower(pretty_location(b))}

\* C6 as stated: two records without reference number whose title, company
\* and rendered location are identical after lowercasing get the same "hx:"
\* key, and two that differ in exactly one of the three get different keys.
C6_KeyFollowsLoweredContent ==
    pc = "keyed" /\ NoReference(arg[1]) /\ NoReference(arg[2]) =>
        /\ DifferingFields(arg[1], arg[2]) = {} =>
              res.keys[1] = res.keys[2] /\ SubSeq(res.keys[1], 1, 3) = <<"h","x",":">>
        /\ Cardinality(DifferingFields(arg[1], arg[2])) = 1 => res.keys[1] # res.keys[2]

\* the difference between two records is more than blanks in front of the
\* title or behind the rendered location
DiffersBeyondOuterBlanks(a, b) ==
    \/ LStrip(Lower(item_title(a))) # LStrip(Lower(item_title(b)))
    \/ Lower(item_company(a)) # Lower(item_company(b))
    \/ RStrip(Lower(pretty_location(a))) # RStrip(Lower(pretty_location(b)))

\* C6 amended: two records without reference number whose title, company and
\* rendered location are identical after lowercasing get the same "hx:" key,
\* and two that differ in exactly one of the three get different keys unless
\* the difference is only blanks in front of the title or behind the location.
C6_KeyFollowsLoweredContentUpToOuterBlanks ==
    pc = "keyed" /\ NoReference(arg[1]) /\ NoReference(arg[2]) =>
        /\ DifferingFields(arg[1], arg[2]) = {} =>
              res.keys[1] = res.keys[2] /\ SubSeq(res.keys[1], 1, 3) = <<"h","x",":">>
        /\ Cardinality(DifferingFields(arg[1], arg[2])) = 1
           /\ DiffersBeyondOuterBlanks(arg[1], arg[2])
           => res.keys[1] # res.keys[2]

\* two records without reference number that differ in the casing of title,
\* company and location only, with one key, deduplicated to the first
C6_Witness ==
    /\ pc = "keyed"
    /\ NoReference(arg[1]) /\ NoReference(arg[2])
    /\ arg[1] # arg[2]
    /\ item_title(arg[1]) # item_title(arg[2])
    /\ item_company(arg[1]) # item_company(arg[2])
    /\ pretty_location(arg[1]) # pretty_location(arg[2])
    /\ DifferingFields(arg[1], arg[2]) = {}
    /\ res.keys[1] = res.keys[2]
    /\ Len(res.dedup) = 1

\* ------------------------------------------------------------------------
\* score_breakdown applied to a record, before and after a term is entered
\* ------------------------------------------------------------------------
BucketHomeoffice == Str(HomeofficeBucket(DefaultUi))
BucketOnSite == Str(OnSiteBucket(DefaultUi))

\* the posting of the scoring example
ScoredTitle == <<"T","e","a","m","l","e","i","t","e","r"," ","D","S","C","-","L","a","b","o","r",","," ","A","s","s","i","s","t","e","n","z"," ","d","e","r"," ","G","e","s","c","h","a","e","f","t","s","f","u","e","h","r","u","n","g">>

ScoreRecords ==
    {[titel |-> Str(ScoredTitle), _bucket |-> BucketOnSite],
     [titel |-> Str(ScoredTitle), _bucket |-> BucketHomeoffice],
     [titel |-> Str(<<"C","h","e","m","i","k","e","r">>), kurzbeschreibung |-> Str(<<"A","n","a","l","y","t","i","k"," ","m","i","t"," ","D","S","C">>),
      arbeitgeber |-> Str(<<"B","A","S","F">>), arbeitsort |-> Str(<<"L","e","u","n","a">>), arbeitszeit |-> Str(<<"H","O">>)],
     [beruf |-> Str(<<"L","a","b","o","r","l","e","i","t","e","r"," ","A","n","a","l","y","t","i","k">>), arbeitgeber |-> Str(<<"A","s","s","i","s","t","e","n","z"," ","G","m","b","H">>),
      arbeitsort |-> Dict([ort |-> Str(<<" ","H","a","l","l","e"," ">>)]), _bucket |-> BucketOnSite]}

FocusTexts == {<<"d","s","c">>, <<"D","S","C",","," ","L","a","b","o","r">>, <<>>}
LeadTexts == {<<"t","e","a","m","l","e","i","t","e","r">>, <<>>}
NegTexts == {<<"a","s","s","i","s","t","e","n","z">>, <<>>}
EnteredTerms == {<<"d","s","c">>, <<" ","A","n","a","l","y","t","i","k">>, <<"t","e","a","m","l","e","i","t","e","r">>, <<"a","s","s","i","s","t","e","n","z">>, <<"x","y","z">>}
Bonuses == {0, 8}

InitScore ==
    /\ CompanyAtRest
    /\ kw_focus \in FocusTexts /\ kw_lead \in LeadTexts /\ kw_neg \in NegTexts
    /\ save_snapshot_requested = FALSE /\ snapshot_file = NoFile /\ clock = 1
    /\ NoRunYet
    /\ pc = "score"
    /\ arg \in [it : ScoreRecords, bonus : Bonuses, list : {"focus", "lead", "neg"},
                term : EnteredTerms]
    /\ res = <<>>

\* score_breakdown with the keyword lists as they stand
Score ==
    /\ pc \in {"score", "rescore"}
    /\ res' = Append(res, score_breakdown(arg.it, arg.bonus))
    /\ pc' = IF pc = "score" THEN "edit" ELSE "rescored"
    /\ UNCHANGED <<companyVars, sessionVars, snapshot_file, clock, ui, delete_pressed, snap,
                   calls, all_items, errs, items_dedup, items_now, new_keys, items_sorted, arg>>

\* the user enters arg.term on a new line of the keyword text arg.list
EnterTerm ==
    /\ pc = "edit"
    /\ kw_focus' = IF arg.list = "focus" THEN kw_focus \o <<"\n">> \o arg.term ELSE kw_focus
    /\ kw_lead' = IF arg.list = "lead" THEN kw_lead \o <<"\n">> \o arg.term ELSE kw_lead
    /\ kw_neg' = IF arg.list = "neg" THEN kw_neg \o <<"\n">> \o arg.term ELSE kw_neg
    /\ pc' = "rescore"
    /\ UNCHANGED <<companyVars, save_snapshot_requested, snapshot_file, clock, ui,
                   delete_pressed, snap, calls, all_items, errs, items_dedup, items_now,
                   new_keys, items_sorted, arg, res>>

NextScore == Score \/ EnterTerm

SpecScore == InitScore /\ [][NextScore]_vars

\* the lowercased haystack: title, short description, company, location
LoweredHaystack(it) ==
    Lower(item_title(it) \o <<" ">> \o PyStr(GetD(it, "kurzbeschreibung", Str(<<>>)))
          \o <<" ">> \o item_company(it) \o <<" ">> \o pretty_location(it))

\* how many terms of the keyword list kws the text contains
Contained(kws, text) == Cardinality({i \in 1..Len(kws) : Contains(text, kws[i])})

\* the last score is the weighted hit count of the record of arg under the
\* current keyword lists
StatedScore ==
    \E hay \in {LoweredHaystack(arg.it)} :
        res[Len(res)][1]
            = 10 * Contained(FOCUS_KEYWORDS, hay) + 6 * Contained(LEADERSHIP_KEYWORDS, hay)
              - 12 * Contained(NEGATIVE_KEYWORDS, hay)
              + (IF is_homeoffice_item(arg.it) /\ arg.bonus > 0 THEN arg.bonus ELSE 0)

\* the term entered, as the keyword list holds it
EnteredLower == Lower(Strip(arg.term))

\* the keyword list the term was entered in, and its weight
EditedList ==
    CASE arg.list = "focus" -> FOCUS_KEYWORDS
      [] arg.list = "lead"  -> LEADERSHIP_KEYWORDS
      [] arg.list = "neg"   -> NEGATIVE_KEYWORDS
EditedWeight ==
    CASE arg.list = "focus" -> 10
      [] arg.list = "lead"  -> 6
      [] arg.list = "neg"   -> 0 - 12

\* C8: the score is 10 times the number of focus terms the lowercased haystack
\* contains, plus 6 times the number of leadership terms, minus 12 times the
\* number of negative terms, plus the homeoffice bonus once when the record is
\* a homeoffice item and the bonus is > 0; a further focus term that hits
\* raises the score by exactly 10; one negative hit alone gives -12; focus
\* [dsc], leadership [teamleiter], negative [assistenz] on the example title
\* without bonus gives 4.
C8_ScoreIsWeightedHitCount ==
    pc \in {"edit", "rescored"} =>
        /\ StatedScore
        /\ pc = "rescored" /\ arg.list = "focus"
           /\ Contains(LoweredHaystack(arg.it), EnteredLower)
           => res[2][1] = res[1][1] + 10
        /\ pc = "edit"
           /\ Contained(FOCUS_KEYWORDS, LoweredHaystack(arg.it)) = 0
           /\ Contained(LEADERSHIP_KEYWORDS, LoweredHaystack(arg.it)) = 0
           /\ Contained(NEGATIVE_KEYWORDS, LoweredHaystack(arg.it)) = 1
           /\ ~(is_homeoffice_item(arg.it) /\ arg.bonus > 0)
           => res[1][1] = 0 - 12
        /\ pc = "edit"
           /\ FOCUS_KEYWORDS = << <<"d","s","c">> >>
           /\ LEADERSHIP_KEYWORDS = << <<"t","e","a","m","l","e","i","t","e","r">> >>
           /\ NEGATIVE_KEYWORDS = << <<"a","s","s","i","s","t","e","n","z">> >>
           /\ arg.it = [titel |-> Str(ScoredTitle), _bucket |-> BucketOnSite]
           => res[1][1] = 4

\* the scoring example with two focus hits, one leadership hit, one negative
\* hit and the homeoffice bonus: 10 + 10 + 6 - 12 + 8
C8_Witness ==
    /\ pc = "edit"
    /\ Len(FOCUS_KEYWORDS) = 2
    /\ arg.it = [titel |-> Str(ScoredTitle), _bucket |-> BucketHomeoffice]
    /\ arg.bonus = 8
    /\ res[1][1] = 22

\* the term entered was in its list already
EnteredTwice == Cardinality({i \in 1..Len(EditedList) : EditedList[i] = EnteredLower}) >= 2

\* C9 as stated: entering a term a second time in its keyword list leaves the
\* score as it was.
C9_RepeatedTermKeepsScore ==
    pc = "rescored" /\ EnteredTwice => res[2][1] = res[1][1]

\* C9 amended: entering a term a second time in its keyword list changes the
\* score by the weight of the list (+10, +6, -12) when the haystack contains
\* the term, and leaves it as it was when the haystack does not.
C9_RepeatedTermCountsAgain ==
    pc = "rescored" /\ EnteredTwice =>
        res[2][1] = res[1][1]
                    + (IF Contains(LoweredHaystack(arg.it), EnteredLower)
                       THEN EditedWeight ELSE 0)

\* dsc, entered a second time in the focus list, raised the score of the
\* example posting from 4 to 14
C9_Witness ==
    /\ pc = "rescored"
    /\ arg.list = "focus"
    /\ FOCUS_KEYWORDS = << <<"d","s","c">>, <<"d","s","c">> >>
    /\ arg.it = [titel |-> Str(ScoredTitle), _bucket |-> BucketOnSite]
    /\ res[1][1] = 4
    /\ res[2][1] = 14

\* the positions of the keyword list kws whose term the text contains
HitPositions(kws, text) == {i \in 1..Len(kws) : kws[i] # <<>> /\ Contains(text, kws[i])}

\* part is label followed by a term of kws that the text contains
IsPartOf(part, label, kws, text) ==
    \E i \in HitPositions(kws, text) : part = label \o kws[i]

\* the parts are one entry per focus hit, then one per leadership hit, then
\* one per negative hit, then the homeoffice entry if the bonus was added
InContributionOrder(parts, nf, nl, nn, ho, hay) ==
    /\ Len(parts) = nf + nl + nn + (IF ho THEN 1 ELSE 0)
    /\ \A k \in 1..Len(parts) :
          IF k <= nf THEN IsPartOf(parts[k], <<"+","1","0"," ">>, FOCUS_KEYWORDS, hay)
          ELSE IF k <= nf + nl
               THEN IsPartOf(parts[k], <<"+","6"," ">>, LEADERSHIP_KEYWORDS, hay)
          ELSE IF k <= nf + nl + nn
               THEN IsPartOf(parts[k], <<"-","1","2"," ">>, NEGATIVE_KEYWORDS, hay)
          ELSE parts[k] = <<"+">> \o NatStr(arg.bonus)
                              \o <<" ","h","o","m","e","o","f","f","i","c","e">>

\* C21: the explanation score_breakdown returns is never empty; it is the
\* single placeholder entry exactly when no keyword matched and no homeoffice
\* bonus was added, and otherwise one entry per contribution in the order
\* focus, leadership, negative, homeoffice.
C21_ExplanationNeverEmpty ==
    pc \in {"edit", "rescored"} =>
        \E parts \in {res[Len(res)][2]}, hay \in {LoweredHaystack(arg.it)} :
        \E nf \in {Cardinality(HitPositions(FOCUS_KEYWORDS, hay))},
           nl \in {Cardinality(HitPositions(LEADERSHIP_KEYWORDS, hay))},
           nn \in {Cardinality(HitPositions(NEGATIVE_KEYWORDS, hay))},
           ho \in {is_homeoffice_item(arg.it) /\ arg.bonus > 0} :
            /\ parts # <<>>
            /\ (parts = <<NoHitsPart>>) <=> (nf + nl + nn = 0 /\ ~ho)
            /\ ~(nf + nl + nn = 0 /\ ~ho) => InContributionOrder(parts, nf, nl, nn, ho, hay)

\* the on-site example scored with empty keyword lists: the placeholder alone
C21_Witness ==
    /\ pc = "edit"
    /\ FOCUS_KEYWORDS = <<>> /\ LEADERSHIP_KEYWORDS = <<>> /\ NEGATIVE_KEYWORDS = <<>>
    /\ arg.it = [titel |-> Str(ScoredTitle), _bucket |-> BucketOnSite]
    /\ res[1] = <<0, <<NoHitsPart>> >>

\* ------------------------------------------------------------------------
\* match_target_org applied to a company name, over a directory
\* ------------------------------------------------------------------------
FooEntry == [name |-> "Foo", match |-> << <<"f","o","o">> >>]
FoobarEntry == [name |-> "Foobar", match |-> << <<"f","o","o","b","a","r">> >>]

\* the directory of the matching example
ExampleDirectory == <<FooEntry, FoobarEntry>>

Directories ==
    {TARGET_ORGS, ExampleDirectory, <<FoobarEntry, FooEntry>>,
     <<[name |-> "No terms"], FoobarEntry>>, <<>>}

Companies ==
    {<<>>, <<" ">>, <<" ","\t"," ">>, <<"F","o","o","b","a","r"," ","G","m","b","H">>, <<"F","O","O"," ","A","G">>, <<"S","i","e","m","e","n","s"," ","E","n","e","r","g","y"," ","G","l","o","b","a","l">>, <<"S","i","e","m","e","n","s"," ","A","G">>, <<"F","r","a","u","n","h","o","f","e","r"," ","I","M","W","S">>, <<"F","r","a","u","n","h","o","f","e","r"," ","I","Z","I">>, <<"F","r","a","u","n","h","o","f","e","r","-","G","e","s","e","l","l","s","c","h","a","f","t">>, <<"M","F","P","A"," ","L","e","i","p","z","i","g"," ","G","m","b","H">>,
     <<"U","n","i","v","e","r","s","i","t","a","e","t"," ","L","e","i","p","z","i","g">>, <<"B","M","W"," ","A","G">>, <<"S","t","a","d","t"," ","L","e","i","p","z","i","g">>, <<"D","B","F","Z">>, <<"R","a","f","f","i","n","e","r","i","e"," ","L","e","u","n","a">>, <<"B","a","e","c","k","e","r","e","i"," ","S","c","h","m","i","d","t">>}

InitOrg ==
    /\ CompanyAtRest
    /\ kw_focus = FocusText /\ kw_lead = LeadText /\ kw_neg = NegText
    /\ save_snapshot_requested = FALSE /\ snapshot_file = NoFile /\ clock = 1
    /\ NoRunYet
    /\ pc = "match"
    /\ arg \in [orgs : Directories, company : Companies]
    /\ res = <<>>

\* the body of match_target_org over the directory arg.orgs
ApplyMatch ==
    /\ pc = "match"
    /\ res' = MatchIn(arg.orgs, arg.company)
    /\ pc' = "matched"
    /\ UNCHANGED <<companyVars, sessionVars, snapshot_file, clock, ui, delete_pressed, snap,
                   calls, all_items, errs, items_dedup, items_now, new_keys, items_sorted, arg>>

NextOrg == ApplyMatch

SpecOrg == InitOrg /\ [][NextOrg]_vars

\* one of the entry's match terms is a substring of the lowercased company
EntryMatches(org, company) ==
    /\ "match" \in DOMAIN org
    /\ \E m \in Range(org.match) : Contains(Lower(company), m)

\* C10: the result is none for an empty or whitespace-only company; otherwise
\* it is the first entry, in directory order, one of whose match terms is a
\* substring of the lowercased company name, and none when no entry has one;
\* with the directory [Foo: [foo], Foobar: [foobar]], "Foobar GmbH" yields Foo.
C10_FirstMatchingEntryWins ==
    pc = "matched" =>
        \E m \in {{i \in 1..Len(arg.orgs) : EntryMatches(arg.orgs[i], arg.company)}} :
            /\ (\A i \in 1..Len(arg.company) : IsSpace(arg.company[i])) => res = <<>>
            /\ (\E i \in 1..Len(arg.company) : ~IsSpace(arg.company[i])) =>
                  /\ m = {} => res = <<>>
                  /\ m # {} => \E i \in m : res = arg.orgs[i] /\ \A j \in m : i <= j
            /\ arg.orgs = ExampleDirectory /\ arg.company = <<"F","o","o","b","a","r"," ","G","m","b","H">> => res = FooEntry

\* "Foobar GmbH" over the directory [Foo: [foo], Foobar: [foobar]] yields Foo
C10_Witness ==
    /\ pc = "matched"
    /\ arg.orgs = ExampleDirectory
    /\ arg.company = <<"F","o","o","b","a","r"," ","G","m","b","H">>
    /\ res = FooEntry
    /\ EntryMatches(FoobarEntry, arg.company)

\* ------------------------------------------------------------------------
\* Company check (src/app.py 50-60, 1033-1297)
\* ------------------------------------------------------------------------
\* the names of TARGET_ORGS, entry by entry, as texts
ORG_NAME_TEXT == <<
    <<"I","n","f","r","a","L","e","u","n","a">>,
    <<"T","o","t","a","l","E","n","e","r","g","i","e","s"," ","/"," ","R","a","f","f","i","n","e","r","i","e"," ","L","e","u","n","a">>,
    <<"D","o","w"," ","(","S","c","h","k","o","p","a","u","/","B","o","e","h","l","e","n",")">>,
    <<"T","r","i","n","s","e","o"," ","(","S","c","h","k","o","p","a","u",")">>,
    <<"D","O","M","O"," ","/"," ","C","a","p","r","o","l","e","u","n","a">>,
    <<"U","P","M"," ","B","i","o","c","h","e","m","i","c","a","l","s"," ","(","L","e","u","n","a",")">>,
    <<"A","D","D","I","N","O","L"," ","(","L","e","u","n","a",")">>,
    <<"A","r","k","e","m","a">>,
    <<"E","a","s","t","m","a","n">>,
    <<"I","n","n","o","s","p","e","c">>,
    <<"S","h","e","l","l"," ","(","C","a","t","a","l","y","s","t","s","/","L","e","u","n","a",")">>,
    <<"L","i","n","d","e">>,
    <<"A","i","r"," ","L","i","q","u","i","d","e">>,
    <<"B","A","S","F">>,
    <<"W","a","c","k","e","r"," ","C","h","e","m","i","e">>,
    <<"V","e","r","b","i","o"," ","(","L","e","i","p","z","i","g",")">>,
    <<"V","N","G"," ","(","L","e","i","p","z","i","g",")">>,
    <<"S","i","e","m","e","n","s"," ","E","n","e","r","g","y">>,
    <<"S","i","e","m","e","n","s"," ","(","a","l","l","g","e","m","e","i","n",")">>,
    <<"B","M","W"," ","W","e","r","k"," ","L","e","i","p","z","i","g">>,
    <<"P","o","r","s","c","h","e"," ","L","e","i","p","z","i","g">>,
    <<"D","H","L"," ","H","u","b"," ","L","e","i","p","z","i","g">>,
    <<"M","i","t","t","e","l","d","e","u","t","s","c","h","e"," ","F","l","u","g","h","a","f","e","n"," ","A","G"," ","(","L","E","J",")">>,
    <<"S","t","a","d","t","w","e","r","k","e"," ","L","e","i","p","z","i","g"," ","/"," ","L","e","i","p","z","i","g","e","r"," ","G","r","u","p","p","e">>,
    <<"e","n","v","i","a","M","-","G","r","u","p","p","e">>,
    <<"G","B","A"," ","G","r","o","u","p">>,
    <<"E","u","r","o","f","i","n","s">>,
    <<"S","G","S">>,
    <<"D","E","K","R","A">>,
    <<"U","F","Z"," ","H","e","l","m","h","o","l","t","z"," ","(","L","e","i","p","z","i","g",")">>,
    <<"D","B","F","Z"," ","L","e","i","p","z","i","g">>,
    <<"F","r","a","u","n","h","o","f","e","r"," ","I","Z","I"," ","(","L","e","i","p","z","i","g",")">>,
    <<"F","r","a","u","n","h","o","f","e","r"," ","I","M","W","S"," ","(","H","a","l","l","e",")">>,
    <<"F","r","a","u","n","h","o","f","e","r"," ","(","J","o","b","p","o","r","t","a","l",")">>,
    <<"L","e","i","b","n","i","z","-","I","n","s","t","i","t","u","t"," ","f","u","e","r"," ","O","b","e","r","f","l","a","e","c","h","e","n","m","o","d","i","f","i","z","i","e","r","u","n","g"," ","(","I","O","M",")">>,
    <<"L","e","i","b","n","i","z"," ","I","P","B"," ","(","H","a","l","l","e",")">>,
    <<"M","a","x","-","P","l","a","n","c","k","-","G","e","s","e","l","l","s","c","h","a","f","t"," ","(","S","t","e","l","l","e","n","b","o","e","r","s","e",")">>,
    <<"U","n","i","v","e","r","s","i","t","a","e","t"," ","L","e","i","p","z","i","g"," ","(","S","t","e","l","l","e","n",")">>,
    <<"M","L","U"," ","H","a","l","l","e"," ","(","S","t","e","l","l","e","n",")">>,
    <<"H","o","c","h","s","c","h","u","l","e"," ","M","e","r","s","e","b","u","r","g">>,
    <<"H","T","W","K"," ","L","e","i","p","z","i","g"," ","(","S","t","e","l","l","e","n",")">>,
    <<"M","F","P","A"," ","L","e","i","p","z","i","g"," ","G","m","b","H">>,
    <<"M","F","P","A"," ","L","e","i","p","z","i","g"," ","-"," ","W","a","e","r","m","e","l","e","i","t","f","a","e","h","i","g","k","e","i","t"," ","(","S","e","r","v","i","c","e",")">>,
    <<"U","n","i","v","e","r","s","i","t","a","e","t"," ","L","e","i","p","z","i","g"," ","-"," ","T","e","c","h","n","i","s","c","h","e"," ","C","h","e","m","i","e"," ","(","E","q","u","i","p","m","e","n","t",")">>,
    <<"M","L","U"," ","H","a","l","l","e"," ","-"," ","T","h","e","r","m","a","l"," ","a","n","a","l","y","s","i","s"," ","(","G","e","o","/","M","i","n","G","e","o",")">>,
    <<"H","T","W","K"," ","L","e","i","p","z","i","g"," ","-"," ","M","N","Z"," ","W","e","r","k","s","t","o","f","f","p","r","u","e","f","u","n","g">>,
    <<"T","Z","O"," ","L","e","i","p","z","i","g"," ","-"," ","L","a","b","o","r"," ","U","m","w","e","l","t","e","r","p","r","o","b","u","n","g"," ","&"," ","W","e","r","k","s","t","o","f","f","p","r","u","e","f","u","n","g">> >>

\* the place of each entry's name among all names in the order of Python's
\* string comparison of the names as the source writes them
ORG_NAME_RANK == <<
    20, 38, 10, 39, 9, 41, 1, 3, 11, 21, 33, 24, 2, 4, 46, 45, 44, 35, 34, 5, 31, 8, 30, 36,
    47, 16, 12, 32, 7, 40, 6, 15, 14, 13, 23, 22, 29, 42, 27, 19, 17, 25, 26, 43, 28, 18, 37 >>

\* the entry of an organisation that has none yet
ZeroEntry == [last_checked |-> <<>>, count |-> 0, prev_count |-> 0, notes |-> <<>>]

\* the slider "Gelb ab X Tagen ohne Pruefung" at its default
WARN_DAYS == 7

\* load_company_state(): the mapping of the file, empty without a file
load_company_state == company_file

OrgName(i) == TARGET_ORGS[i].name

\* org.get("priority", "")
OrgPriority(i) == IF "priority" \in DOMAIN TARGET_ORGS[i] THEN TARGET_ORGS[i].priority ELSE ""

PriorityText(i) == IF OrgPriority(i) = "high" THEN <<"h","i","g","h">> ELSE <<>>

\* company_state.get(org_name, {}) read with the defaults of the code
EntryOf(state, name) == IF name \in DOMAIN state THEN state[name] ELSE ZeroEntry

\* datetime.now().strftime("%Y-%m-%d"): dates are day numbers, written in digits
today(now) == NatStr(now)

\* the days since the date date_str; None, which is -1, for a blank or
\* unreadable date
days_since(date_str, now) ==
    IF ToFloat(Str(date_str))[1] THEN now - ToFloat(Str(date_str))[2] ELSE -1

org_sort_key(i, state, now) ==
    LET ds == days_since(EntryOf(state, OrgName(i)).last_checked, now)
    IN  << IF OrgPriority(i) = "high" THEN 0 ELSE 1,
           IF ds = -1 THEN 0 ELSE IF ds >= WARN_DAYS THEN 1 ELSE 2,
           IF ds = -1 THEN 1000000000 ELSE 0 - ds,
           ORG_NAME_RANK[i] >>

\* a < b on the keys of org_sort_key
OrgKeyLess(a, b) ==
    \/ a[1] < b[1]
    \/ a[1] = b[1] /\ a[2] < b[2]
    \/ a[1] = b[1] /\ a[2] = b[2] /\ a[3] < b[3]
    \/ a[1] = b[1] /\ a[2] = b[2] /\ a[3] = b[3] /\ a[4] < b[4]

\* sorted(TARGET_ORGS, key=org_sort_key), as entry numbers
SortedOrgs(state, now) ==
    CHOOSE r \in
        {AsSeq([p \in 1..Len(pos) |-> CHOOSE i \in 1..Len(pos) : pos[i] = p]) :
            pos \in {AsSeq([i \in 1..Len(keys) |->
                               1 + Cardinality({j \in 1..Len(keys) :
                                                   OrgKeyLess(keys[j], keys[i])})]) :
                        keys \in {AsSeq([i \in 1..Len(TARGET_ORGS) |->
                                            org_sort_key(i, state, now)])}}} : TRUE

\* the text of the search box, stripped and lowercased
NameFilter(text) == Lower(Strip(text))

\* org.get("name", "").lower() of every organisation
ORG_NAME_LOWER == AsSeq([i \in 1..Len(ORG_NAME_TEXT) |-> Lower(ORG_NAME_TEXT[i])])

\* the organisations the tab shows, in display order
filtered_orgs(state, now, only_high, name_filter) ==
    SelectSeq(SortedOrgs(state, now),
              LAMBDA i : /\ ~(only_high /\ OrgPriority(i) # "high")
                         /\ ~(name_filter # <<>>
                               /\ ~Contains(ORG_NAME_LOWER[i], name_filter)))

\* company_state in the render loop after its first p iterations: the
\* organisations shown so far have an entry
WithDefaults(state, shown, p) ==
    [n \in DOMAIN state \cup {OrgName(shown[k]) : k \in 1..p} |-> EntryOf(state, n)]

\* the export item of one organisation, without its url
ExportItem(i, state) ==
    LET data == EntryOf(state, OrgName(i))
    IN  [name |-> OrgName(i), priority |-> OrgPriority(i),
         last_checked |-> data.last_checked, count |-> data.count,
         prev_count |-> data.prev_count, diff |-> data.count - data.prev_count,
         notes |-> data.notes]

\* _csv_safe: quotes doubled, line breaks to blanks, the whole in quotes
RECURSIVE CsvEscaped(_)
CsvEscaped(s) ==
    IF s = <<>> THEN <<>>
    ELSE (CASE Head(s) = "\"" -> <<"\"", "\"">>
            [] Head(s) \in {"\n", "\r"} -> <<" ">>
            [] OTHER -> <<Head(s)>>) \o CsvEscaped(Tail(s))

csv_safe(s) == <<"\"">> \o CsvEscaped(s) \o <<"\"">>

\* the header of the CSV export, without the url column
CsvHeader == <<"n","a","m","e",",","p","r","i","o","r","i","t","y",",","l","a","s","t","_","c","h","e","c","k","e","d",",","c","o","u","n","t",",","p","r","e","v","_","c","o","u","n","t",",","d","i","f","f",",","n","o","t","e","s">>

\* the CSV line of one organisation, without its url
CsvLine(i, state) ==
    CHOOSE r \in
        {Join(<<",">>, <<csv_safe(ORG_NAME_TEXT[i]), csv_safe(PriorityText(i)),
                         csv_safe(item.last_checked), PyStr(Num(item.count)),
                         PyStr(Num(item.prev_count)), PyStr(Num(item.diff)),
                         csv_safe(item.notes)>>) :
            item \in {ExportItem(i, state)}} : TRUE

\* export_payload["items"] and csv_lines of a render that shows the
\* organisations shown, built from company_state as loaded
ExportOf(state, shown) ==
    [items     |-> AsSeq([k \in 1..Len(shown) |-> ExportItem(shown[k], state)]),
     csv_lines |-> <<CsvHeader>> \o AsSeq([k \in 1..Len(shown) |-> CsvLine(shown[k], state)])]

\* the last two elements of a sequence
LastTwo(h) == IF Len(h) <= 2 THEN h ELSE SubSeq(h, Len(h) - 1, Len(h))

HistoryOf(name) == IF name \in DOMAIN check_history THEN check_history[name] ELSE <<>>

\* the export a render offers with the widgets only_high and text: built
\* from company_state as loaded, for the organisations the render shows
Export(only_high, text) ==
    CHOOSE r \in
        {ExportOf(state, filtered_orgs(state, clock, only_high, NameFilter(text))) :
            state \in {load_company_state}} : TRUE

\* A render of the company tab in which no button is pressed: entries are
\* created in memory only, nothing is saved.
CompanyRender(only_high, text) ==
    /\ pc = "company"
    /\ company_pressed' = <<>>
    /\ UNCHANGED <<company_file, check_history>>
    /\ UNCHANGED <<sessionVars, snapshot_file, clock, pc, ui, delete_pressed, snap, calls,
                   all_items, errs, items_dedup, items_now, new_keys, items_sorted, arg, res>>

\* a reset that starts the state file afresh
CompanyResetAll(only_high, text, o) ==
    /\ pc = "company"
    /\ \E p \in 1..Len(filtered_orgs(load_company_state, clock, only_high, NameFilter(text))) :
          filtered_orgs(load_company_state, clock, only_high, NameFilter(text))[p] = o
    /\ company_file' = (OrgName(o) :> ZeroEntry)
    /\ check_history' = (OrgName(o) :> <<>>) @@ check_history
    /\ company_pressed' = <<"reset", o>>
    /\ UNCHANGED <<sessionVars, snapshot_file, clock, pc, ui, delete_pressed, snap, calls,
                   all_items, errs, items_dedup, items_now, new_keys, items_sorted, arg, res>>

\* The render in which the reset button of organisation o is pressed: the
\* entry is zeroed and the state saved, with the entries the loop created
\* before it reached o; the script reruns.
CompanyReset(only_high, text, o) ==
    /\ pc = "company"
    /\ \E state \in {load_company_state} :
       \E shown \in {filtered_orgs(state, clock, only_high, NameFilter(text))} :
       \E p \in 1..Len(shown) :
           /\ shown[p] = o
           /\ company_file' = [WithDefaults(state, shown, p) EXCEPT ![OrgName(o)] = ZeroEntry]
    /\ check_history' = (OrgName(o) :> <<>>) @@ check_history
    /\ company_pressed' = <<"reset", o>>
    /\ UNCHANGED <<sessionVars, snapshot_file, clock, pc, ui, delete_pressed, snap, calls,
                   all_items, errs, items_dedup, items_now, new_keys, items_sorted, arg, res>>

\* The render in which "Heute geprueft" of organisation o is pressed with
\* new_count in the number field: prev_count takes the stored count, count the
\* number, last_checked the day; the state is saved and the script reruns.
CompanyMarkChecked(only_high, text, o, new_count) ==
    /\ pc = "company"
    /\ \E state \in {load_company_state} :
       \E shown \in {filtered_orgs(state, clock, only_high, NameFilter(text))} :
       \E p \in 1..Len(shown) :
           /\ shown[p] = o
           /\ \E loop \in {WithDefaults(state, shown, p)} :
                 company_file' = [loop EXCEPT ![OrgName(o)] =
                                     [loop[OrgName(o)] EXCEPT
                                         !.prev_count = loop[OrgName(o)].count,
                                         !.count = new_count,
                                         !.last_checked = today(clock)]]
    /\ check_history' =
          (OrgName(o) :> LastTwo(Append(HistoryOf(OrgName(o)), new_count))) @@ check_history
    /\ company_pressed' = <<"check", o>>
    /\ UNCHANGED <<sessionVars, snapshot_file, clock, pc, ui, delete_pressed, snap, calls,
                   all_items, errs, items_dedup, items_now, new_keys, items_sorted, arg, res>>

\* The render in which "Notizen speichern" of organisation o is pressed with
\* notes in the text area and new_count in the number field: both are stored
\* and the state saved.
CompanySaveNotes(only_high, text, o, new_count, notes) ==
    /\ pc = "company"
    /\ \E state \in {load_company_state} :
       \E shown \in {filtered_orgs(state, clock, only_high, NameFilter(text))} :
       \E p \in 1..Len(shown) :
           /\ shown[p] = o
           /\ \E loop \in {WithDefaults(state, shown, p)} :
                 company_file' = [loop EXCEPT ![OrgName(o)] =
                                     [loop[OrgName(o)] EXCEPT !.notes = notes,
                                                              !.count = new_count]]
    /\ company_pressed' = <<"notes", o>>
    /\ UNCHANGED check_history
    /\ UNCHANGED <<sessionVars, snapshot_file, clock, pc, ui, delete_pressed, snap, calls,
                   all_items, errs, items_dedup, items_now, new_keys, items_sorted, arg, res>>

\* the organisation whose buttons are pressed: DBFZ Leipzig
PressedOrgs == {31}

\* the largest number entered in a number field
MaxCount == 2

\* the texts typed into the search box
SearchTexts == {<<>>, <<" ","L","e","i","p","z","i","g">>}

NotesTexts == {<<"D","S","C"," ","\"","L","a","b","o","r","\"","\n","2"," ","S","t","e","l","l","e","n">>}

\* the state file an earlier session left: InfraLeuna checked on day 1 with
\* the counts 1 and then 3, and a note
StoredBefore ==
    OrgName(1) :> [last_checked |-> today(1), count |-> 3, prev_count |-> 1,
                   notes |-> <<"2"," ","n","e","u">>]

CheckedBefore == OrgName(1) :> <<1, 3>>

InitCompany ==
    /\ kw_focus = FocusText /\ kw_lead = LeadText /\ kw_neg = NegText
    /\ save_snapshot_requested = FALSE /\ snapshot_file = NoFile /\ clock = 1
    /\ NoRunYet
    /\ pc = "company"
    /\ arg = <<>> /\ res = <<>>
    /\ \/ company_file = <<>> /\ check_history = <<>>
       \/ company_file = StoredBefore /\ check_history = CheckedBefore
    /\ company_pressed = <<>>

\* the settings of the two filters in the renders: none, either one
CompanyFilters == {<<h, t>> \in BOOLEAN \X SearchTexts : ~(h /\ t # <<>>)}

NextCompany ==
    \/ \E f \in CompanyFilters : CompanyRender(f[1], f[2])
    \/ \E f \in CompanyFilters, o \in PressedOrgs : CompanyReset(f[1], f[2], o)
    \/ \E f \in CompanyFilters, o \in PressedOrgs, n \in 0..MaxCount :
            CompanyMarkChecked(f[1], f[2], o, n)
    \/ \E f \in CompanyFilters, o \in PressedOrgs, n \in 0..MaxCount,
           notes \in NotesTexts : CompanySaveNotes(f[1], f[2], o, n, notes)

SpecCompany == InitCompany /\ [][NextCompany]_vars

\* ------------------------------------------------------------------------
\* Claims on the company tab
\* ------------------------------------------------------------------------
\* the counts the mark-checked actions recorded for DBFZ Leipzig since its
\* last reset, the last two of them
Recorded == HistoryOf(OrgName(31))

StoredEntry == EntryOf(company_file, OrgName(31))

\* C17 as stated: after any sequence of mark-checked, save-notes and reset
\* actions on one organisation, the stored prev_count is the count that the
\* previous mark-checked action recorded, that is the one before the latest.
C17_PrevCountIsPreviousCheck ==
    Len(Recorded) = 2 => StoredEntry.prev_count = Recorded[1]

\* checked with 1, notes saved with 0 in the number field, checked with 1
\* again: the previous check recorded 1, the stored prev_count is 0
C17_FailingInput ==
    /\ Recorded = <<1, 1>>
    /\ StoredEntry.count = 1
    /\ StoredEntry.prev_count = 0

\* an export with exactly one item and one CSV row for every organisation of
\* TARGET_ORGS
IsFullDump(export) ==
    /\ Len(export.items) = Len(TARGET_ORGS)
    /\ \A i \in 1..Len(TARGET_ORGS) :
          Cardinality({k \in 1..Len(export.items) : export.items[k].name = OrgName(i)}) = 1
    /\ Len(export.csv_lines) = 1 + Len(TARGET_ORGS)

\* C18 as stated: whatever the high-priority-only and name filters are set
\* to, the exported JSON items and CSV rows hold exactly one entry for every
\* organisation of the static directory.
C18_ExportIsFullDump ==
    pc = "company" =>
        \A only_high \in BOOLEAN, text \in SearchTexts : IsFullDump(Export(only_high, text))

\* DBFZ Leipzig checked with count 2, the tab rendered with "Nur
\* High-Priority" ticked: the export holds the high-priority organisations
\* only, while the export without filters holds every organisation
C18_FailingInput ==
    /\ pc = "company"
    /\ StoredEntry.count = 2 /\ Recorded # <<>>
    /\ \E export \in {Export(TRUE, <<>>)} :
          /\ Len(export.items) = 4
          /\ Len(export.csv_lines) = 5
          /\ \E k \in 1..4 : export.items[k].name = OrgName(31) /\ export.items[k].count = 2
          /\ ~IsFullDump(export)
    /\ IsFullDump(Export(FALSE, <<>>))

\* ------------------------------------------------------------------------
\* distance_bucket applied to one distance and two thresholds
\* ------------------------------------------------------------------------
MaxDistKm == 4
MaxThresholdKm == 3

\* None (-1) or a distance in km; the thresholds in either order
BucketArgs ==
    [dist_km : {-1} \cup 0..MaxDistKm, near_km : 0..MaxThresholdKm, mid_km : 0..MaxThresholdKm]

InitBucket ==
    /\ CompanyAtRest
    /\ kw_focus = FocusText /\ kw_lead = LeadText /\ kw_neg = NegText
    /\ save_snapshot_requested = FALSE /\ snapshot_file = NoFile /\ clock = 1
    /\ NoRunYet
    /\ pc = "bucket"
    /\ arg \in BucketArgs
    /\ res = <<>>

ApplyBucket ==
    /\ pc = "bucket"
    /\ res' = distance_bucket(arg.dist_km, arg.near_km, arg.mid_km)
    /\ pc' = "bucketed"
    /\ UNCHANGED <<companyVars, sessionVars, snapshot_file, clock, ui, delete_pressed, snap,
                   calls, all_items, errs, items_dedup, items_now, new_keys, items_sorted, arg>>

NextBucket == ApplyBucket

SpecBucket == InitBucket /\ [][NextBucket]_vars

\* C19: distance_bucket gives "na" for an absent distance, "green" for a
\* distance up to the near threshold, otherwise "yellow" for one up to the mid
\* threshold, otherwise "red", whatever the order of the thresholds; the
\* distance 0 is "green" for every positive near threshold.
C19_ProximityTier ==
    pc = "bucketed" =>
        /\ (arg.dist_km = -1) <=> (res = "na")
        /\ arg.dist_km # -1 =>
              /\ (res = "green")  <=> (arg.dist_km <= arg.near_km)
              /\ (res = "yellow") <=> (arg.dist_km > arg.near_km /\ arg.dist_km <= arg.mid_km)
              /\ (res = "red")    <=> (arg.dist_km > arg.near_km /\ arg.dist_km > arg.mid_km)
        /\ (arg.dist_km = 0 /\ arg.near_km > 0) => res = "green"

\* near above mid, the distance equal to near: "green", never "yellow"
C19_Witness ==
    /\ pc = "bucketed"
    /\ arg = [dist_km |-> 3, near_km |-> 3, mid_km |-> 1]
    /\ res = "green"

\* ------------------------------------------------------------------------
\* looks_leadership_strict applied to one record
\* ------------------------------------------------------------------------
StrictTitles ==
    {<<"T","e","a","m","l","e","i","t","e","r"," ","A","n","a","l","y","t","i","k">>,
     <<"L","e","i","t","e","r"," ","L","a","b","o","r">>,
     <<"T","e","a","m","l","e","i","t","e","r","i","n"," ","L","a","b","o","r">>,
     <<"D","i","r","e","c","t","o","r","y"," ","S","e","r","v","i","c","e","s"," ","E","n","g","i","n","e","e","r">>,
     <<"L","a","b","o","r","l","e","i","t","e","r","a","s","s","i","s","t","e","n","z">>,
     <<"C","h","e","m","i","k","e","r">>,
     <<"H","e","a","d"," ","o","f"," ","Q","u","a","l","i","t","y">>,
     <<"S","e","n","i","o","r"," ","H","e","a","d"," ","o","f"," ","L","a","b">>,
     <<"L","e","i","t","e","r","p","l","a","t","t","e","n"," ","E","n","t","w","i","c","k","l","e","r">>,
     <<"A","b","t","e","i","l","u","n","g","s","l","e","i","t","e","r">>,
     <<"L","e","i","t","e","r",","," ","L","a","b","o","r">>}

\* the short descriptions; a record can also lack the field or hold None in it
StrictDescriptions ==
    {<<>>,
     <<"A","s","s","i","s","t","e","n","z"," ","d","e","r"," ","L","e","i","t","u","n","g">>,
     <<"S","i","e"," ","s","i","n","d"," ","G","r","u","p","p","e","n","l","e","i","t","e","r"," ","i","m"," ","L","a","b","o","r">>,
     <<"S","u","b","d","i","r","e","c","t","o","r","a","t","e"," ","A","n","a","l","y","t","i","k">>}

StrictRecords ==
    {[titel |-> Str(t)] : t \in StrictTitles}
    \cup {[titel |-> Str(t), kurzbeschreibung |-> NoneV] : t \in StrictTitles}
    \cup {[titel |-> Str(t), kurzbeschreibung |-> Str(d)] :
              t \in StrictTitles, d \in StrictDescriptions}

InitStrict ==
    /\ CompanyAtRest
    /\ kw_focus = FocusText /\ kw_lead = LeadText /\ kw_neg = NegText
    /\ save_snapshot_requested = FALSE /\ snapshot_file = NoFile /\ clock = 1
    /\ NoRunYet
    /\ pc = "strict"
    /\ arg \in StrictRecords
    /\ res = <<>>

ApplyStrict ==
    /\ pc = "strict"
    /\ res' = looks_leadership_strict(arg)
    /\ pc' = "stricted"
    /\ UNCHANGED <<companyVars, sessionVars, snapshot_file, clock, ui, delete_pressed, snap,
                   calls, all_items, errs, items_dedup, items_now, new_keys, items_sorted, arg>>

NextStrict == ApplyStrict

SpecStrict == InitStrict /\ [][NextStrict]_vars

\* the enumerated leadership titles, as words
LeadershipTitles ==
    {<<"l","e","i","t","e","r">>,
     <<"l","a","b","o","r","l","e","i","t","e","r">>,
     <<"t","e","a","m","l","e","i","t","e","r">>,
     <<"g","r","u","p","p","e","n","l","e","i","t","e","r">>,
     <<"a","b","t","e","i","l","u","n","g","s","l","e","i","t","e","r">>,
     <<"b","e","r","e","i","c","h","s","l","e","i","t","e","r">>,
     <<"h","e","a","d"," ","o","f">>,
     <<"d","i","r","e","c","t","o","r">>}

IsLetter(c) == \E i \in 1..Len(LowerAlpha) : LowerAlpha[i] = c

\* w stands in the lowercased text t as a whole word: no letter before it and
\* none after it
WholeWord(t, w) ==
    \E i \in 0..(Len(t) - Len(w)) :
        /\ \A j \in 1..Len(w) : t[i + j] = w[j]
        /\ i = 0 \/ ~IsLetter(t[i])
        /\ i + Len(w) = Len(t) \/ ~IsLetter(t[i + Len(w) + 1])

\* C22 as stated: looks_leadership_strict is true only if the title or the
\* short description contains one of the enumerated leadership titles as a
\* whole word, never when such a title occurs merely as part of a longer word.
C22_StrictFlagMatchesWholeWords ==
    pc = "stricted" =>
        (res => \E text \in {StrictText(arg)} :
                    \E w \in LeadershipTitles : WholeWord(text, w))

\* "Directory Services Engineer": no leadership title as a word, the flag is set
C22_FailingInput ==
    /\ pc = "stricted"
    /\ arg = [titel |-> Str(<<"D","i","r","e","c","t","o","r","y"," ","S","e","r","v","i","c","e","s"," ","E","n","g","i","n","e","e","r">>)]
    /\ res = TRUE

\* ------------------------------------------------------------------------
\* Several script runs of one session, one after the other
\* ------------------------------------------------------------------------
\* the number of script runs
MaxRuns == 3

\* the widgets of the runs: the defaults, the filters switched off, or no
\* profile selected
RunUis ==
    {DefaultUi,
     [DefaultUi EXCEPT !.only_focus = FALSE, !.hide_irrelevant = FALSE],
     [DefaultUi EXCEPT !.selected_profiles = <<>>]}

\* the keyword texts after the user cut the focus text down to "dsc"
EditedKeywords == << <<"d","s","c">>, LeadText, NegText >>

\* the outcomes of the search call of a run
RunOutcomes ==
    {JsonOk(<<JobA, JobB>>), JsonOk(<<JobB, JobA>>), JsonOk(<<JobA>>), JsonOk(<<>>),
     [kind |-> "exception"]}

\* a new session: nothing requested, no snapshot file
InitRuns ==
    /\ CompanyAtRest
    /\ kw_focus = FocusText /\ kw_lead = LeadText /\ kw_neg = NegText
    /\ save_snapshot_requested = FALSE
    /\ snapshot_file = NoFile
    /\ clock = 1
    /\ InitRun
    /\ arg = <<>> /\ res = <<>>

\* The user touches a widget after a run has ended or was ended by an
\* exception: the script runs again from the top, later than the run before.
NextRun ==
    /\ pc \in {"done", "crashed"}
    /\ clock < MaxRuns
    /\ pc' = "idle"
    /\ clock' = clock + 1
    /\ UNCHANGED <<companyVars, sessionVars, snapshot_file, ui, delete_pressed, snap, calls,
                   all_items, errs, items_dedup, items_now, new_keys, items_sorted, arg, res>>

NextRuns ==
    \/ \E u \in RunUis, b \in {"none", "save", "delete"},
          kws \in {<<kw_focus, kw_lead, kw_neg>>, EditedKeywords} : StartRun(u, kws, b)
    \/ \E h \in RunOutcomes : FetchCall(h, MaxItems)
    \/ FetchCallRaises(HttpJsonList)
    \/ Rank
    \/ Finish
    \/ NextRun

SpecRuns == InitRuns /\ [][NextRuns]_vars

\* the run loaded the snapshot that the run before it saved
LoadedLastSave == snap.timestamp = Num(clock - 1)

\* the save of this run has been executed
SavedInThisRun ==
    pc = "done" /\ snapshot_file.exists /\ snapshot_file.timestamp = Num(clock)

\* C23: after a snapshot save has executed in one run, the next run whose
\* filtered result has the same identity keys as the saved list reports an
\* empty new_keys set; in the run in which the save executes, new_keys is the
\* difference to the snapshot loaded before the save, not to the saved one.
C23_SavedResultIsNotNewNextRun ==
    /\ (Ranked /\ LoadedLastSave /\ IdentityKeys(items_now) = IdentityKeys(snap.items))
            => new_keys = {}
    /\ (Ranked /\ SavedInThisRun)
            => /\ snap.timestamp # snapshot_file.timestamp
               /\ new_keys = {k \in IdentityKeys(items_now) : k \notin IdentityKeys(snap.items)}

\* the second run saved two records, both new to it; the third run finds the
\* same two records and none of them is new
C23_Witness ==
    /\ Ranked /\ pc = "done"
    /\ clock = 3
    /\ LoadedLastSave
    /\ Len(items_now) = 2
    /\ IdentityKeys(items_now) = IdentityKeys(snap.items)
    /\ new_keys = {}

\* a step of a run in which no save request is pending and the delete button
\* is not pressed: the step that starts such a run, or a later step of it
QuietStart ==
    pc = "idle" /\ pc' # "idle" /\ ~delete_pressed' /\ ~save_snapshot_requested'

QuietStep ==
    pc \in {"search", "rank", "save"} /\ ~delete_pressed /\ ~save_snapshot_requested

\* C24: a run in which no save request is pending and the delete button is
\* not pressed leaves the snapshot file unchanged, whatever the search
\* results, filters and keyword texts of the run: its first step keeps the
\* file, and each later step finds the file as the run loaded it, keeps it
\* and leaves no request pending.
C24_SnapshotChangesOnlyBySaveAndDelete ==
    [][/\ QuietStart => snapshot_file' = snapshot_file
       /\ QuietStep =>
            /\ load_snapshot = snap
            /\ snapshot_file' = snapshot_file
            /\ ~save_snapshot_requested' /\ ~delete_pressed']_vars

\* the first run saved two records; the second, without a button and with
\* the focus text cut down, ranked one record and left the file as it was
C24_Witness ==
    /\ pc = "done" /\ ui.selected_profiles # <<>>
    /\ clock = 2
    /\ ~delete_pressed /\ ~save_snapshot_requested
    /\ kw_focus = <<"d","s","c">>
    /\ Len(items_sorted) = 1
    /\ snapshot_file.exists /\ snapshot_file.timestamp = Num(1)
    /\ Len(snapshot_file.items) = 2
    /\ load_snapshot = snap

\* the run has ended, by its last statement, by st.stop or by an exception
RunEnded == pc \in {"done", "crashed"}

\* C25 as stated: at the end of any run in which the user pressed the delete
\* button no snapshot exists, whatever runs came before it.
C25_DeleteIsEffective ==
    (RunEnded /\ delete_pressed) => ~snapshot_file.exists

\* save pressed in a run that stopped for want of a profile, then delete
\* pressed in a run with a profile: the file is removed and, at the end of the
\* same run, written again by the save left pending
C25_FailingRun ==
    /\ pc = "done" /\ ui.selected_profiles # <<>>
    /\ delete_pressed
    /\ clock = 2
    /\ snap = [timestamp |-> NoneV, items |-> <<>>]
    /\ snapshot_file.exists /\ snapshot_file.timestamp = Num(2)
    /\ snapshot_file.items = items_sorted

\* C26: a mark-checked, save-notes or reset action on an organisation leaves
\* last_checked, count, prev_count and notes of every other organisation as
\* they were, stored or read as the zeroed defaults, and keeps every stored
\* entry stored; a render in which no button is pressed leaves the state file
\* as it is.
C26_OnlyActedOrganisationChanges ==
    [][pc = "company" =>
          /\ company_pressed' = <<>> => company_file' = company_file
          /\ company_pressed' # <<>> =>
                \A i \in 1..Len(TARGET_ORGS) :
                    i # company_pressed'[2] =>
                        /\ EntryOf(company_file', OrgName(i)) = EntryOf(company_file, OrgName(i))
                        /\ OrgName(i) \in DOMAIN company_file
                               => OrgName(i) \in DOMAIN company_file']_vars

\* DBFZ Leipzig was checked with count 2 in a render without filters: the
\* entry of InfraLeuna is the one stored before, and the entries the loop
\* created on its way are zeroed
C26_Witness ==
    /\ pc = "company"
    /\ company_pressed = <<"check", 31>>
    /\ StoredEntry.count = 2 /\ StoredEntry.last_checked = today(clock)
    /\ OrgName(1) \in DOMAIN company_file /\ company_file[OrgName(1)] = StoredBefore[OrgName(1)]
    /\ Cardinality(DOMAIN company_file) > 2
    /\ \A n \in DOMAIN company_file \ {OrgName(1), OrgName(31)} : company_file[n] = ZeroEntry

====
